---- MODULE Spec2Model ----
(***************************************************************************)
(* rs9p: the 9P2000.L server library.                                      *)
(*                                                                         *)
(* The model covers the request dispatcher of src/src/srv.rs               *)
(* (dispatch_once and the two dispatch loops), the fid lists of            *)
(* src/src/fcall.rs, the errno mapping of src/src/error.rs and the reply   *)
(* writer of src/src/server.rs.                                            *)
(*                                                                         *)
(*   Spec       one connection served by srv (a forked child) or by        *)
(*              srv_spawn (a worker thread), every request kind            *)
(*   SpecSpawn  NumConns connections served by srv_spawn workers that      *)
(*              share the backend mutex                                    *)
(***************************************************************************)
EXTENDS Integers, Sequences, FiniteSets, TLC

(***************************************************************************)
(* Bounds of the model.                                                    *)
(***************************************************************************)
\* raw fids a client uses are 0..MaxFid
MaxFid == 1
\* aux values a backend stores are Some(1)..Some(MaxAux)
MaxAux == 1
\* tags a client uses are 1..MaxTag
MaxTag == 2
\* connections accepted by srv_spawn
NumConns == 2

(***************************************************************************)
(* Program constants.                                                      *)
(***************************************************************************)
\* Option::None of Fid::aux; Some(a) is a in 1..MaxAux
None == 0
\* errno values (Linux)
ENOENT == 2
EIO == 5
EACCES == 13
ENOSYS == 38
EPROTONOSUPPORT == 93
EOPNOTSUPP == 95
\* the version string of the protocol
P92000L == "9P2000.L"

RawFids == 0..MaxFid
AuxVals == 1..MaxAux
AuxOpt == {None} \cup AuxVals
Tags == 1..MaxTag
Conns == 1..NumConns

(***************************************************************************)
(* Message kinds (MsgType / Fcall variants).                               *)
(***************************************************************************)
OneFidKinds ==
    {"Tstatfs", "Tlopen", "Tlcreate", "Tsymlink", "Treadlink", "Tgetattr",
     "Tsetattr", "Txattrcreate", "Treaddir", "Tfsync", "Tlock", "Tgetlock",
     "Tread", "Twrite", "Tclunk", "Tremove"}

\* the response variant of the same name
RKind(k) ==
    CASE k = "Tstatfs" -> "Rstatfs"           [] k = "Tlopen" -> "Rlopen"
      [] k = "Tlcreate" -> "Rlcreate"         [] k = "Tsymlink" -> "Rsymlink"
      [] k = "Tmknod" -> "Rmknod"             [] k = "Trename" -> "Rrename"
      [] k = "Treadlink" -> "Rreadlink"       [] k = "Tgetattr" -> "Rgetattr"
      [] k = "Tsetattr" -> "Rsetattr"         [] k = "Txattrwalk" -> "Rxattrwalk"
      [] k = "Txattrcreate" -> "Rxattrcreate" [] k = "Treaddir" -> "Rreaddir"
      [] k = "Tfsync" -> "Rfsync"             [] k = "Tlock" -> "Rlock"
      [] k = "Tgetlock" -> "Rgetlock"         [] k = "Tlink" -> "Rlink"
      [] k = "Tmkdir" -> "Rmkdir"             [] k = "Trenameat" -> "Rrenameat"
      [] k = "Tunlinkat" -> "Runlinkat"       [] k = "Tauth" -> "Rauth"
      [] k = "Tattach" -> "Rattach"           [] k = "Tversion" -> "Rversion"
      [] k = "Tflush" -> "Rflush"             [] k = "Twalk" -> "Rwalk"
      [] k = "Tread" -> "Rread"               [] k = "Twrite" -> "Rwrite"
      [] k = "Tclunk" -> "Rclunk"             [] k = "Tremove" -> "Rremove"

\* the version strings and the msize a client asks for in Tversion
Versions == {P92000L, "9P2000"}
Msizes == {4096, 8192}
\* the lengths of the Data a backend returns in Rread
DataLens == {0, 8192}
\* the number of names in the wnames of a Twalk: none (a clone) or one
NWnames == {0, 1}

\* Msg { typ, tag, body }: the fid positions of the body, scalars left out
\* but for the msize and the version of Tversion and the length of the
\* wnames of Twalk
Msgs ==
    [kind : OneFidKinds, tag : Tags, fid : RawFids]
      \cup [kind : {"Tmknod", "Tmkdir"}, tag : Tags, dfid : RawFids]
      \cup [kind : {"Tunlinkat"}, tag : Tags, dirfd : RawFids]
      \cup [kind : {"Trename", "Tlink"}, tag : Tags, fid : RawFids, dfid : RawFids]
      \cup [kind : {"Trenameat"}, tag : Tags, olddirfid : RawFids, newdirfid : RawFids]
      \cup [kind : {"Twalk"}, tag : Tags, fid : RawFids, newfid : RawFids,
            nwname : NWnames]
      \cup [kind : {"Txattrwalk"}, tag : Tags, fid : RawFids, newfid : RawFids]
      \cup [kind : {"Tauth"}, tag : Tags, afid : RawFids]
      \cup [kind : {"Tattach"}, tag : Tags, fid : RawFids]
      \cup [kind : {"Tversion"}, tag : Tags, msize : Msizes, version : Versions]
      \cup [kind : {"Tflush"}, tag : Tags]
      \cup [kind : {"Rclunk"}, tag : Tags]

\* Fcall::fid: the existing fids a request references, in order
Fcall_fid(body) ==
    CASE body.kind \in OneFidKinds -> <<body.fid>>
      [] body.kind \in {"Tmknod", "Tmkdir"} -> <<body.dfid>>
      [] body.kind = "Tunlinkat" -> <<body.dirfd>>
      [] body.kind = "Trename" -> <<body.fid, body.dfid>>
      [] body.kind = "Tlink" -> <<body.dfid, body.fid>>
      [] body.kind = "Trenameat" -> <<body.olddirfid, body.newdirfid>>
      [] body.kind \in {"Twalk", "Txattrwalk"} -> <<body.fid>>
      [] OTHER -> <<>>

\* Fcall::newfid: the fids a request introduces
Fcall_newfid(body) ==
    CASE body.kind \in {"Txattrwalk", "Twalk"} -> <<body.newfid>>
      [] body.kind = "Tauth" -> <<body.afid>>
      [] body.kind = "Tattach" -> <<body.fid>>
      [] OTHER -> <<>>


(***************************************************************************)
(* Errors (error.rs).                                                      *)
(***************************************************************************)
\* io::Error::raw_os_error() == None
NoRaw == 0
EPERM == 1
EINTR == 4
EAGAIN == 11
EINVAL == 22
EPIPE == 32
EADDRINUSE == 98
EADDRNOTAVAIL == 99
ECONNABORTED == 103
ECONNRESET == 104
ENOTCONN == 107
ETIMEDOUT == 110
ECONNREFUSED == 111
EALREADY == 114

\* variant: the raw OS errno is ignored
errno_from_ioerror_kind(e) ==
    CASE e.kind = "NotFound" -> ENOENT
      [] e.kind = "PermissionDenied" -> EPERM
      [] OTHER -> EIO

errno_from_ioerror(e) ==
    IF e.raw # NoRaw THEN e.raw
    ELSE CASE e.kind = "NotFound" -> ENOENT
           [] e.kind = "PermissionDenied" -> EPERM
           [] e.kind = "ConnectionRefused" -> ECONNREFUSED
           [] e.kind = "ConnectionReset" -> ECONNRESET
           [] e.kind = "ConnectionAborted" -> ECONNABORTED
           [] e.kind = "NotConnected" -> ENOTCONN
           [] e.kind = "AddrInUse" -> EADDRINUSE
           [] e.kind = "AddrNotAvailable" -> EADDRNOTAVAIL
           [] e.kind = "BrokenPipe" -> EPIPE
           [] e.kind = "AlreadyExists" -> EALREADY
           [] e.kind = "WouldBlock" -> EAGAIN
           [] e.kind = "InvalidInput" -> EINVAL
           [] e.kind = "InvalidData" -> EINVAL
           [] e.kind = "TimedOut" -> ETIMEDOUT
           [] e.kind = "WriteZero" -> EAGAIN
           [] e.kind = "Interrupted" -> EINTR
           [] OTHER -> EIO

\* Error::errno
errno(e) ==
    IF e.var = "No" THEN e.no ELSE errno_from_ioerror(e)

\* the errors a backend callback returns in the model: an errno, an I/O
\* error without and one with a raw OS errno
BackendErrs ==
    {[var |-> "No", no |-> EOPNOTSUPP],
     [var |-> "Io", kind |-> "NotFound", raw |-> NoRaw],
     [var |-> "Io", kind |-> "PermissionDenied", raw |-> EACCES]}

\* the Fcall an implementation returns in Ok: the response variant of the
\* request; the payload is kept for Rversion and, as its length, for Rread
\* and for the wqids of Rwalk (at most one qid for each name)
OkFcalls(body) ==
    CASE body.kind = "Tversion" ->
            {[kind |-> "Rversion", msize |-> body.msize,
              version |-> body.version]}
      [] body.kind = "Tread" ->
            {[kind |-> "Rread", data |-> n] : n \in DataLens}
      [] body.kind = "Twalk" ->
            {[kind |-> "Rwalk", nwqid |-> n] : n \in 0..body.nwname}
      [] OTHER -> {[kind |-> RKind(body.kind)]}

\* Result<Fcall> of a callback of any implementation: Ok(fcall) or Err(e)
CallbackResults(body) ==
    {[ok |-> TRUE, fcall |-> f] : f \in OkFcalls(body)}
      \cup [ok : {FALSE}, err : BackendErrs]

\* variant: the default rversion of the older server accepts any version
rversion_any(ms, ver) ==
    [ok |-> TRUE,
     fcall |-> [kind |-> "Rversion", msize |-> 8192, version |-> P92000L]]

\* Filesystem::rversion, the default implementation
rversion(ms, ver) ==
    IF ver = P92000L
    THEN [ok |-> TRUE,
          fcall |-> [kind |-> "Rversion", msize |-> ms, version |-> ver]]
    ELSE [ok |-> FALSE, err |-> [var |-> "No", no |-> EPROTONOSUPPORT]]

\* variant: the defaults of the older server, which return ENOSYS
DefaultCallback_enosys(body) ==
    IF body.kind = "Tversion" THEN rversion(body.msize, body.version)
    ELSE [ok |-> FALSE, err |-> [var |-> "No", no |-> ENOSYS]]

\* the callback dispatch_once invokes for the request, as the trait
\* implements it: every method but rversion is Err(Error::No(EOPNOTSUPP))
DefaultCallback(body) ==
    IF body.kind = "Tversion" THEN rversion(body.msize, body.version)
    ELSE [ok |-> FALSE, err |-> [var |-> "No", no |-> EOPNOTSUPP]]

\* what the callback of the Filesystem served may return
Callback(f, body) ==
    IF f = "default" THEN {DefaultCallback(body)} ELSE CallbackResults(body)

(***************************************************************************)
(* serialize.rs: the wire codec.  A byte string is a sequence of numbers   *)
(* in 0..255; a String value is the sequence of its UTF-8 bytes.           *)
(***************************************************************************)

\* WriteBytesExt::write_u8/u16/u32/u64::<LittleEndian>: v in w bytes
RECURSIVE LE(_, _)
LE(v, w) == IF w = 0 THEN <<>> ELSE <<v % 256>> \o LE(v \div 256, w - 1)

\* ReadBytesExt::read_u8/u16/u32/u64::<LittleEndian>: the value of bytes b
RECURSIVE FromLE(_)
FromLE(b) == IF b = <<>> THEN 0 ELSE Head(b) + 256 * FromLE(Tail(b))

IntTypes == {"u8", "u16", "u32", "u64"}

\* mem::size_of of the integer type T
Width(T) ==
    CASE T = "u8" -> 1 [] T = "u16" -> 2 [] T = "u32" -> 4 [] T = "u64" -> 8

FlagTypes ==
    {"QidType", "GetattrMask", "SetattrMask", "LockType", "LockFlag",
     "LockStatus"}

\* the integer type a flag type is read from and written as
FlagRepr(T) ==
    CASE T = "QidType" -> "u8"
      [] T = "GetattrMask" -> "u64"
      [] T = "SetattrMask" -> "u32"
      [] T = "LockType" -> "u8"
      [] T = "LockFlag" -> "u32"
      [] T = "LockStatus" -> "u8"

\* every bit some flag of type T defines
FlagBits(T) ==
    CASE T = "QidType" -> 252
      [] T = "GetattrMask" -> 16383
      [] T = "SetattrMask" -> 511
      [] T = "LockType" -> 3
      [] T = "LockFlag" -> 3
      [] T = "LockStatus" -> 3

RECURSIVE BitAnd(_, _)
BitAnd(a, b) ==
    IF a = 0 \/ b = 0 THEN 0
    ELSE (a % 2) * (b % 2) + 2 * BitAnd(a \div 2, b \div 2)

\* $typ::from_bits_truncate: the undefined bits are dropped
from_bits_truncate(T, v) == BitAnd(v, FlagBits(T))

\* the element type of a Vec<T>
ElemType(T) == IF T = "Vec<String>" THEN "String" ELSE "Qid"

\* impl Encodable for Qid, Statfs, Time, Stat, SetAttr, DirEntry, Flock,
\* Getlock: the fields written, in order, with the type each is encoded as
EncodeFields(T) ==
    CASE T = "Qid" ->
          <<<<"typ", "u8">>, <<"version", "u32">>, <<"path", "u64">>>>
      [] T = "Statfs" ->
          <<<<"typ", "u32">>, <<"bsize", "u32">>, <<"blocks", "u64">>,
            <<"bfree", "u64">>, <<"bavail", "u64">>, <<"files", "u64">>,
            <<"ffree", "u64">>, <<"fsid", "u64">>, <<"namelen", "u32">>>>
      [] T = "Time" -> <<<<"sec", "u64">>, <<"nsec", "u64">>>>
      [] T = "Stat" ->
          <<<<"mode", "u32">>, <<"uid", "u32">>, <<"gid", "u32">>,
            <<"nlink", "u64">>, <<"rdev", "u64">>, <<"size", "u64">>,
            <<"blksize", "u64">>, <<"blocks", "u64">>, <<"atime", "Time">>,
            <<"mtime", "Time">>, <<"ctime", "Time">>>>
      [] T = "SetAttr" ->
          <<<<"mode", "u32">>, <<"uid", "u32">>, <<"gid", "u32">>,
            <<"size", "u64">>, <<"atime", "Time">>, <<"mtime", "Time">>>>
      [] T = "DirEntry" ->
          <<<<"qid", "Qid">>, <<"offset", "u64">>, <<"typ", "u8">>,
            <<"name", "String">>>>
      [] T = "Flock" ->
          <<<<"typ", "u8">>, <<"flags", "u32">>, <<"start", "u64">>,
            <<"length", "u64">>, <<"proc_id", "u32">>,
            <<"client_id", "String">>>>
      [] T = "Getlock" ->
          <<<<"typ", "u8">>, <<"start", "u64">>, <<"length", "u64">>,
            <<"proc_id", "u32">>, <<"client_id", "String">>>>

\* impl Decodable for the same types: the fields read, in order, with the
\* type each is decoded as (decode_trunc! for the flag fields)
DecodeFields(T) ==
    CASE T = "Qid" ->
          <<<<"typ", "QidType">>, <<"version", "u32">>, <<"path", "u64">>>>
      [] T = "Flock" ->
          <<<<"typ", "LockType">>, <<"flags", "LockFlag">>,
            <<"start", "u64">>, <<"length", "u64">>, <<"proc_id", "u32">>,
            <<"client_id", "String">>>>
      [] T = "Getlock" ->
          <<<<"typ", "LockType">>, <<"start", "u64">>, <<"length", "u64">>,
            <<"proc_id", "u32">>, <<"client_id", "String">>>>
      [] OTHER -> EncodeFields(T)

\* impl Encodable for Msg: the fields each arm writes, in order, with the
\* type each is encoded as ("0" is the literal 0u64)
EncodeArm(kind) ==
    CASE kind = "Rlerror" -> <<<<"ecode", "u32">>>>
      [] kind = "Tstatfs" -> <<<<"fid", "u32">>>>
      [] kind = "Rstatfs" -> <<<<"statfs", "Statfs">>>>
      [] kind = "Tlopen" -> <<<<"fid", "u32">>, <<"flags", "u32">>>>
      [] kind = "Rlopen" -> <<<<"qid", "Qid">>, <<"iounit", "u32">>>>
      [] kind = "Tlcreate" ->
          <<<<"fid", "u32">>, <<"name", "String">>, <<"flags", "u32">>,
            <<"mode", "u32">>, <<"gid", "u32">>>>
      [] kind = "Rlcreate" -> <<<<"qid", "Qid">>, <<"iounit", "u32">>>>
      [] kind = "Tsymlink" ->
          <<<<"fid", "u32">>, <<"name", "String">>, <<"symtgt", "String">>,
            <<"gid", "u32">>>>
      [] kind = "Rsymlink" -> <<<<"qid", "Qid">>>>
      [] kind = "Tmknod" ->
          <<<<"dfid", "u32">>, <<"name", "String">>, <<"mode", "u32">>,
            <<"major", "u32">>, <<"minor", "u32">>, <<"gid", "u32">>>>
      [] kind = "Rmknod" -> <<<<"qid", "Qid">>>>
      [] kind = "Trename" ->
          <<<<"fid", "u32">>, <<"dfid", "u32">>, <<"name", "String">>>>
      [] kind = "Rrename" -> <<>>
      [] kind = "Treadlink" -> <<<<"fid", "u32">>>>
      [] kind = "Rreadlink" -> <<<<"target", "String">>>>
      [] kind = "Tgetattr" -> <<<<"fid", "u32">>, <<"req_mask", "u64">>>>
      [] kind = "Rgetattr" ->
          <<<<"valid", "u64">>, <<"qid", "Qid">>, <<"stat", "Stat">>,
            <<"0", "u64">>, <<"0", "u64">>, <<"0", "u64">>, <<"0", "u64">>>>
      [] kind = "Tsetattr" ->
          <<<<"fid", "u32">>, <<"valid", "u32">>, <<"stat", "Stat">>>>
      [] kind = "Rsetattr" -> <<>>
      [] kind = "Txattrwalk" ->
          <<<<"fid", "u32">>, <<"newfid", "u32">>, <<"name", "String">>>>
      [] kind = "Rxattrwalk" -> <<<<"size", "u64">>>>
      [] kind = "Txattrcreate" ->
          <<<<"fid", "u32">>, <<"name", "String">>, <<"attr_size", "u64">>,
            <<"flags", "u32">>>>
      [] kind = "Rxattrcreate" -> <<>>
      [] kind = "Treaddir" ->
          <<<<"fid", "u32">>, <<"offset", "u64">>, <<"count", "u32">>>>
      [] kind = "Rreaddir" -> <<<<"data", "DirEntryData">>>>
      [] kind = "Tfsync" -> <<<<"fid", "u32">>>>
      [] kind = "Rfsync" -> <<>>
      [] kind = "Tlock" -> <<<<"fid", "u32">>, <<"flock", "Flock">>>>
      [] kind = "Rlock" -> <<<<"status", "u8">>>>
      [] kind = "Tgetlock" -> <<<<"fid", "u32">>, <<"flock", "Getlock">>>>
      [] kind = "Rgetlock" -> <<<<"flock", "Getlock">>>>
      [] kind = "Tlink" ->
          <<<<"dfid", "u32">>, <<"fid", "u32">>, <<"name", "String">>>>
      [] kind = "Rlink" -> <<>>
      [] kind = "Tmkdir" ->
          <<<<"dfid", "u32">>, <<"name", "String">>, <<"mode", "u32">>,
            <<"gid", "u32">>>>
      [] kind = "Rmkdir" -> <<<<"qid", "Qid">>>>
      [] kind = "Trenameat" ->
          <<<<"olddirfid", "u32">>, <<"oldname", "String">>,
            <<"newdirfid", "u32">>, <<"newname", "String">>>>
      [] kind = "Rrenameat" -> <<>>
      [] kind = "Tunlinkat" ->
          <<<<"dirfd", "u32">>, <<"name", "String">>, <<"flags", "u32">>>>
      [] kind = "Runlinkat" -> <<>>
      [] kind = "Tauth" ->
          <<<<"afid", "u32">>, <<"uname", "String">>, <<"aname", "String">>,
            <<"n_uname", "u32">>>>
      [] kind = "Rauth" -> <<<<"aqid", "Qid">>>>
      [] kind = "Tattach" ->
          <<<<"fid", "u32">>, <<"afid", "u32">>, <<"uname", "String">>,
            <<"aname", "String">>, <<"n_uname", "u32">>>>
      [] kind = "Rattach" -> <<<<"qid", "Qid">>>>
      [] kind = "Tversion" -> <<<<"msize", "u32">>, <<"version", "String">>>>
      [] kind = "Rversion" -> <<<<"msize", "u32">>, <<"version", "String">>>>
      [] kind = "Tflush" -> <<<<"oldtag", "u16">>>>
      [] kind = "Rflush" -> <<>>
      [] kind = "Twalk" ->
          <<<<"fid", "u32">>, <<"newfid", "u32">>,
            <<"wnames", "Vec<String>">>>>
      [] kind = "Rwalk" -> <<<<"wqids", "Vec<Qid>">>>>
      [] kind = "Tread" ->
          <<<<"fid", "u32">>, <<"offset", "u64">>, <<"count", "u32">>>>
      [] kind = "Rread" -> <<<<"data", "Data">>>>
      [] kind = "Twrite" ->
          <<<<"fid", "u32">>, <<"offset", "u64">>, <<"data", "Data">>>>
      [] kind = "Rwrite" -> <<<<"count", "u32">>>>
      [] kind = "Tclunk" -> <<<<"fid", "u32">>>>
      [] kind = "Rclunk" -> <<>>
      [] kind = "Tremove" -> <<<<"fid", "u32">>>>
      [] kind = "Rremove" -> <<>>

\* impl Decodable for Msg: the fields each arm reads, in order, with the
\* type each is decoded as
DecodeArm(kind) ==
    CASE kind = "Rlerror" -> <<<<"ecode", "u32">>>>
      [] kind = "Tstatfs" -> <<<<"fid", "u32">>>>
      [] kind = "Rstatfs" -> <<<<"statfs", "Statfs">>>>
      [] kind = "Tlopen" -> <<<<"fid", "u32">>, <<"flags", "u32">>>>
      [] kind = "Rlopen" -> <<<<"qid", "Qid">>, <<"iounit", "u32">>>>
      [] kind = "Tlcreate" ->
          <<<<"fid", "u32">>, <<"name", "String">>, <<"flags", "u32">>,
            <<"mode", "u32">>, <<"gid", "u32">>>>
      [] kind = "Rlcreate" -> <<<<"qid", "Qid">>, <<"iounit", "u32">>>>
      [] kind = "Tsymlink" ->
          <<<<"fid", "u32">>, <<"name", "String">>, <<"symtgt", "String">>,
            <<"gid", "u32">>>>
      [] kind = "Rsymlink" -> <<<<"qid", "Qid">>>>
      [] kind = "Tmknod" ->
          <<<<"dfid", "u32">>, <<"name", "String">>, <<"mode", "u32">>,
            <<"major", "u32">>, <<"minor", "u32">>, <<"gid", "u32">>>>
      [] kind = "Rmknod" -> <<<<"qid", "Qid">>>>
      [] kind = "Trename" ->
          <<<<"fid", "u32">>, <<"dfid", "u32">>, <<"name", "String">>>>
      [] kind = "Rrename" -> <<>>
      [] kind = "Treadlink" -> <<<<"fid", "u32">>>>
      [] kind = "Rreadlink" -> <<<<"target", "String">>>>
      [] kind = "Tgetattr" ->
          <<<<"fid", "u32">>, <<"req_mask", "GetattrMask">>>>
      [] kind = "Rgetattr" ->
          <<<<"valid", "GetattrMask">>, <<"qid", "Qid">>, <<"stat", "Stat">>>>
      [] kind = "Tsetattr" ->
          <<<<"fid", "u32">>, <<"valid", "SetattrMask">>, <<"stat", "Stat">>>>
      [] kind = "Rsetattr" -> <<>>
      [] kind = "Txattrwalk" ->
          <<<<"fid", "u32">>, <<"newfid", "u32">>, <<"name", "String">>>>
      [] kind = "Rxattrwalk" -> <<<<"size", "u64">>>>
      [] kind = "Txattrcreate" ->
          <<<<"fid", "u32">>, <<"name", "String">>, <<"attr_size", "u64">>,
            <<"flags", "u32">>>>
      [] kind = "Rxattrcreate" -> <<>>
      [] kind = "Treaddir" ->
          <<<<"fid", "u32">>, <<"offset", "u64">>, <<"count", "u32">>>>
      [] kind = "Rreaddir" -> <<<<"data", "DirEntryData">>>>
      [] kind = "Tfsync" -> <<<<"fid", "u32">>>>
      [] kind = "Rfsync" -> <<>>
      [] kind = "Tlock" -> <<<<"fid", "u32">>, <<"flock", "Flock">>>>
      [] kind = "Rlock" -> <<<<"status", "LockStatus">>>>
      [] kind = "Tgetlock" -> <<<<"fid", "u32">>, <<"flock", "Getlock">>>>
      [] kind = "Rgetlock" -> <<<<"flock", "Getlock">>>>
      [] kind = "Tlink" ->
          <<<<"dfid", "u32">>, <<"fid", "u32">>, <<"name", "String">>>>
      [] kind = "Rlink" -> <<>>
      [] kind = "Tmkdir" ->
          <<<<"dfid", "u32">>, <<"name", "String">>, <<"mode", "u32">>,
            <<"gid", "u32">>>>
      [] kind = "Rmkdir" -> <<<<"qid", "Qid">>>>
      [] kind = "Trenameat" ->
          <<<<"olddirfid", "u32">>, <<"oldname", "String">>,
            <<"newdirfid", "u32">>, <<"newname", "String">>>>
      [] kind = "Rrenameat" -> <<>>
      [] kind = "Tunlinkat" ->
          <<<<"dirfd", "u32">>, <<"name", "String">>, <<"flags", "u32">>>>
      [] kind = "Runlinkat" -> <<>>
      [] kind = "Tauth" ->
          <<<<"afid", "u32">>, <<"uname", "String">>, <<"aname", "String">>,
            <<"n_uname", "u32">>>>
      [] kind = "Rauth" -> <<<<"aqid", "Qid">>>>
      [] kind = "Tattach" ->
          <<<<"fid", "u32">>, <<"afid", "u32">>, <<"uname", "String">>,
            <<"aname", "String">>, <<"n_uname", "u32">>>>
      [] kind = "Rattach" -> <<<<"qid", "Qid">>>>
      [] kind = "Tversion" -> <<<<"msize", "u32">>, <<"version", "String">>>>
      [] kind = "Rversion" -> <<<<"msize", "u32">>, <<"version", "String">>>>
      [] kind = "Tflush" -> <<<<"oldtag", "u16">>>>
      [] kind = "Rflush" -> <<>>
      [] kind = "Twalk" ->
          <<<<"fid", "u32">>, <<"newfid", "u32">>,
            <<"wnames", "Vec<String>">>>>
      [] kind = "Rwalk" -> <<<<"wqids", "Vec<Qid>">>>>
      [] kind = "Tread" ->
          <<<<"fid", "u32">>, <<"offset", "u64">>, <<"count", "u32">>>>
      [] kind = "Rread" -> <<<<"data", "Data">>>>
      [] kind = "Twrite" ->
          <<<<"fid", "u32">>, <<"offset", "u64">>, <<"data", "Data">>>>
      [] kind = "Rwrite" -> <<<<"count", "u32">>>>
      [] kind = "Tclunk" -> <<<<"fid", "u32">>>>
      [] kind = "Rclunk" -> <<>>
      [] kind = "Tremove" -> <<<<"fid", "u32">>>>
      [] kind = "Rremove" -> <<>>

\* enum MsgType: the wire value of each message type
MsgTypeCode ==
    "Tlerror" :> 6 @@ "Rlerror" :> 7 @@ "Tstatfs" :> 8 @@ "Rstatfs" :> 9 @@
    "Tlopen" :> 12 @@ "Rlopen" :> 13 @@ "Tlcreate" :> 14 @@
    "Rlcreate" :> 15 @@ "Tsymlink" :> 16 @@ "Rsymlink" :> 17 @@
    "Tmknod" :> 18 @@ "Rmknod" :> 19 @@ "Trename" :> 20 @@ "Rrename" :> 21 @@
    "Treadlink" :> 22 @@ "Rreadlink" :> 23 @@ "Tgetattr" :> 24 @@
    "Rgetattr" :> 25 @@ "Tsetattr" :> 26 @@ "Rsetattr" :> 27 @@
    "Txattrwalk" :> 30 @@ "Rxattrwalk" :> 31 @@ "Txattrcreate" :> 32 @@
    "Rxattrcreate" :> 33 @@ "Treaddir" :> 40 @@ "Rreaddir" :> 41 @@
    "Tfsync" :> 50 @@ "Rfsync" :> 51 @@ "Tlock" :> 52 @@ "Rlock" :> 53 @@
    "Tgetlock" :> 54 @@ "Rgetlock" :> 55 @@ "Tlink" :> 70 @@ "Rlink" :> 71 @@
    "Tmkdir" :> 72 @@ "Rmkdir" :> 73 @@ "Trenameat" :> 74 @@
    "Rrenameat" :> 75 @@ "Tunlinkat" :> 76 @@ "Runlinkat" :> 77 @@
    "Tversion" :> 100 @@ "Rversion" :> 101 @@ "Tauth" :> 102 @@
    "Rauth" :> 103 @@ "Tattach" :> 104 @@ "Rattach" :> 105 @@
    "Tflush" :> 108 @@ "Rflush" :> 109 @@ "Twalk" :> 110 @@ "Rwalk" :> 111 @@
    "Tread" :> 116 @@ "Rread" :> 117 @@ "Twrite" :> 118 @@ "Rwrite" :> 119 @@
    "Tclunk" :> 120 @@ "Rclunk" :> 121 @@ "Tremove" :> 122 @@ "Rremove" :> 123

\* MsgType::from_u8: the message type with wire value b, if any
MsgType_from_u8(b) ==
    IF \E t \in DOMAIN MsgTypeCode : MsgTypeCode[t] = b
    THEN CHOOSE t \in DOMAIN MsgTypeCode : MsgTypeCode[t] = b
    ELSE "None"

RECURSIVE Encode(_, _)
RECURSIVE EncodeAll(_, _, _)
RECURSIVE EncodeEach(_, _)

\* DirEntry::size and DirEntryData::size: the on-wire size of an entry and
\* the sum of the sizes of the entries
DirEntry_size(e) == 13 + 8 + 1 + 2 + Len(e.name)

RECURSIVE DirEntryData_size(_)
DirEntryData_size(es) ==
    IF es = <<>> THEN 0
    ELSE DirEntry_size(Head(es)) + DirEntryData_size(Tail(es))

\* Encodable::encode: the bytes written for the value v of type T
Encode(T, v) ==
    CASE T \in IntTypes -> LE(v, Width(T))
      [] T = "String" -> LE(Len(v) % 65536, 2) \o v
      [] T = "Data" -> LE(Len(v), 4) \o v
      [] T \in {"Vec<String>", "Vec<Qid>"} ->
          LE(Len(v) % 65536, 2) \o EncodeEach(ElemType(T), v)
      [] T = "DirEntryData" ->
          LE(DirEntryData_size(v), 4) \o EncodeEach("DirEntry", v)
      [] OTHER -> EncodeAll(EncodeFields(T), v, 1)

\* Encoder << field << field ...: the fields from the i-th on
EncodeAll(fields, rec, i) ==
    IF i > Len(fields) THEN <<>>
    ELSE Encode(fields[i][2],
                IF fields[i][1] = "0" THEN 0 ELSE rec[fields[i][1]])
         \o EncodeAll(fields, rec, i + 1)

\* iter().fold(Encoder, |acc, e| acc << e)
EncodeEach(T, vs) ==
    IF vs = <<>> THEN <<>>
    ELSE Encode(T, Head(vs)) \o EncodeEach(T, Tail(vs))

\* impl Encodable for Msg with the prefix counting only the bytes after it
Msg_encode_raw(m) ==
    LET raw == <<MsgTypeCode[m.typ]>> \o LE(m.tag, 2)
                   \o EncodeAll(EncodeArm(m.body.kind), m.body, 1)
    IN  [bytes |-> LE(Len(raw), 4) \o raw, ret |-> 4 + Len(raw)]

\* impl Encodable for Msg: the bytes written to the stream and the value
\* returned (frames of 2^32 bytes and more are out of the model's reach)
Msg_encode(m) ==
    LET raw == <<MsgTypeCode[m.typ]>> \o LE(m.tag, 2)
                   \o EncodeAll(EncodeArm(m.body.kind), m.body, 1)
        size == 4 + Len(raw)
    IN  [bytes |-> LE(size, 4) \o raw, ret |-> size]

DecOk(v, p) == [ok |-> TRUE, val |-> v, pos |-> p]
DecErr(e) == [ok |-> FALSE, err |-> e]

\* a continuation byte of a UTF-8 sequence
Cont(b) == 128 <= b /\ b <= 191

\* String::from_utf8 succeeds on the bytes b
RECURSIVE IsUtf8(_)
IsUtf8(b) ==
    IF b = <<>> THEN TRUE
    ELSE LET h == b[1]
             n == Len(b)
         IN  CASE h <= 127 -> IsUtf8(Tail(b))
               [] 194 <= h /\ h <= 223 ->
                   n >= 2 /\ Cont(b[2]) /\ IsUtf8(SubSeq(b, 3, n))
               [] 224 <= h /\ h <= 239 ->
                   /\ n >= 3 /\ Cont(b[2]) /\ Cont(b[3])
                   /\ (h = 224 => b[2] >= 160)
                   /\ (h = 237 => b[2] <= 159)
                   /\ IsUtf8(SubSeq(b, 4, n))
               [] 240 <= h /\ h <= 244 ->
                   /\ n >= 4 /\ Cont(b[2]) /\ Cont(b[3]) /\ Cont(b[4])
                   /\ (h = 240 => b[2] >= 144)
                   /\ (h = 244 => b[2] <= 143)
                   /\ IsUtf8(SubSeq(b, 5, n))
               [] OTHER -> FALSE

\* the record with the field names of fields and the values vals
Rec(fields, vals) ==
    [n \in {fields[i][1] : i \in DOMAIN fields} |->
        vals[CHOOSE i \in DOMAIN fields : fields[i][1] = n]]

RECURSIVE Decode(_, _, _)
RECURSIVE DecodeAll(_, _, _, _, _)
RECURSIVE DecodeEach(_, _, _, _, _)

\* read_exact on a Cursor: n bytes of buf from position pos
read_bytes(buf, pos, n) ==
    IF pos + n - 1 > Len(buf) THEN DecErr("UnexpectedEOF")
    ELSE DecOk(SubSeq(buf, pos, pos + n - 1), pos + n)

\* Decodable::decode: a value of type T read from buf at position pos
Decode(T, buf, pos) ==
    CASE T \in IntTypes ->
          LET r == read_bytes(buf, pos, Width(T))
          IN  IF r.ok THEN DecOk(FromLE(r.val), r.pos) ELSE r
      [] T \in FlagTypes ->
          LET r == Decode(FlagRepr(T), buf, pos)
          IN  IF r.ok THEN DecOk(from_bits_truncate(T, r.val), r.pos) ELSE r
      [] T = "String" ->
          LET l == Decode("u16", buf, pos)
          IN  IF ~l.ok THEN l
              ELSE LET r == read_bytes(buf, l.pos, l.val)
                   IN  IF ~r.ok THEN r
                       ELSE IF IsUtf8(r.val) THEN r
                       ELSE DecErr("Invalid UTF-8 sequence")
      [] T = "Data" ->
          LET l == Decode("u32", buf, pos)
          IN  IF l.ok THEN read_bytes(buf, l.pos, l.val) ELSE l
      [] T \in {"Vec<String>", "Vec<Qid>"} ->
          LET l == Decode("u16", buf, pos)
          IN  IF l.ok THEN DecodeEach(ElemType(T), buf, l.pos, l.val, <<>>)
              ELSE l
      [] T = "DirEntryData" ->
          LET count == Decode("u32", buf, pos)
          IN  IF count.ok
              THEN DecodeEach("DirEntry", buf, count.pos, count.val, <<>>)
              ELSE count
      [] OTHER ->
          LET r == DecodeAll(DecodeFields(T), buf, pos, 1, <<>>)
          IN  IF r.ok THEN DecOk(Rec(DecodeFields(T), r.val), r.pos) ELSE r

\* the fields from the i-th on, each try!(Decodable::decode(r))
DecodeAll(fields, buf, pos, i, acc) ==
    IF i > Len(fields) THEN DecOk(acc, pos)
    ELSE LET r == Decode(fields[i][2], buf, pos)
         IN  IF r.ok
             THEN DecodeAll(fields, buf, r.pos, i + 1, Append(acc, r.val))
             ELSE r

\* for _ in 0..n { push(try!(Decodable::decode(r))) }
DecodeEach(T, buf, pos, n, acc) ==
    IF n = 0 THEN DecOk(acc, pos)
    ELSE LET r == Decode(T, buf, pos)
         IN  IF r.ok
             THEN DecodeEach(T, buf, r.pos, n - 1, Append(acc, r.val))
             ELSE r

\* variant: the Rgetattr arm stops after stat
DecodeDiscard_none(kind) == <<>>

\* what the Rgetattr arm reads after stat and throws away
DecodeDiscard(kind) ==
    IF kind = "Rgetattr"
    THEN <<<<"btime", "Time">>, <<"gen", "u64">>,
           <<"data_version", "u64">>>>
    ELSE <<>>

MsgOk(m) == [ok |-> TRUE, msg |-> m]
MsgErr(e) == [ok |-> FALSE, err |-> e]

\* impl Decodable for Msg without the test of the message type
Msg_decode_buf_any(buf) ==
    LET t == Decode("u8", buf, 1)
    IN  IF ~t.ok THEN MsgErr(t.err)
        ELSE
        LET g == Decode("u16", buf, t.pos)
            typ == MsgType_from_u8(t.val)
            kind == IF typ \in {"None", "Tlerror"} THEN "Rlerror" ELSE typ
        IN  IF ~g.ok THEN MsgErr(g.err)
            ELSE
            LET arm == DecodeArm(kind)
                r == DecodeAll(arm \o DecodeDiscard(kind), buf, g.pos, 1,
                               <<>>)
            IN  IF ~r.ok THEN MsgErr(r.err)
                ELSE MsgOk([typ |-> kind, tag |-> g.val,
                            body |-> ("kind" :> kind) @@ Rec(arm, r.val)])

\* impl Decodable for Msg, from the Cursor on: buf is the frame after its
\* size prefix
Msg_decode_buf(buf) ==
    LET t == Decode("u8", buf, 1)
    IN  IF ~t.ok THEN MsgErr(t.err)
        ELSE
        LET g == Decode("u16", buf, t.pos)
            typ == MsgType_from_u8(t.val)
        IN  IF ~g.ok THEN MsgErr(g.err)
            ELSE IF typ \in {"None", "Tlerror"}
            THEN MsgErr("Invalid message type")
            ELSE
            LET arm == DecodeArm(typ)
                r == DecodeAll(arm \o DecodeDiscard(typ), buf, g.pos, 1,
                               <<>>)
            IN  IF ~r.ok THEN MsgErr(r.err)
                ELSE MsgOk([typ |-> typ, tag |-> g.val,
                            body |-> ("kind" :> typ) @@ Rec(arm, r.val)])

\* the length of the body of a frame whose size prefix is size
BodyLen_whole(size) == size

BodyLen(size) == size - 4

\* u32 `size - 4` for size < 4 in a build without overflow checks: the
\* value wraps to 2^32 - (4 - size), kept here as two 16-bit limbs
wrapping_sub4(size) ==
    [lo |-> (size - 4) % 65536, hi |-> 65535]

\* impl Decodable for Msg on a stream that holds the bytes stream and then
\* ends (the prefix is at least 4 on every frame the encoder writes)
Msg_decode(stream) ==
    LET p == read_bytes(stream, 1, 4)
    IN  IF ~p.ok THEN MsgErr(p.err)
        ELSE LET b == read_bytes(stream, p.pos, BodyLen(FromLE(p.val)))
             IN  IF b.ok THEN Msg_decode_buf(b.val) ELSE MsgErr(b.err)

(***************************************************************************)
(* The messages the codec is exercised on.                                 *)
(***************************************************************************)
MaxSeed == 1
MaxLen == 1
\* dispatcher threads of one MtServerInstance (the code spawns ten)
NumDispatchers == 2
\* requests the reader thread of the srv_mt model reads
MaxReqs == 3
MaxIntr == 1

\* every message kind that has an Fcall variant
Kinds == DOMAIN MsgTypeCode \ {"Tlerror"}

\* a tag of one byte and NOTAG
CodecTags == {1, 65535}

\* the lowest flag of a flag type
LowBit(T) == IF T = "QidType" THEN 4 ELSE 1

RECURSIVE Sample(_, _, _)
\* a value of type T: numbers derived from the seed s so that neighbouring
\* fields and the two bytes of a number differ, strings and vectors of
\* n elements
Sample(T, s, n) ==
    CASE T = "u8" -> s % 256
      [] T \in {"u16", "u32", "u64"} -> s + 256 * (s + 1)
      [] T \in FlagTypes -> from_bits_truncate(T, s * LowBit(T))
      [] T = "String" -> [i \in 1..n |-> 97 + ((s + i) % 26)]
      [] T = "Data" -> [i \in 1..n |-> (200 + s + i) % 256]
      [] T \in {"Vec<String>", "Vec<Qid>"} ->
          [i \in 1..n |-> Sample(ElemType(T), s + i, n)]
      [] T = "DirEntryData" -> [i \in 1..n |-> Sample("DirEntry", s + i, n)]
      [] OTHER ->
          LET fields == DecodeFields(T)
          IN  Rec(fields,
                  [i \in DOMAIN fields |-> Sample(fields[i][2], s + i, n)])

\* a well-formed Msg of the given kind: typ agrees with the body
SampleMsg(kind, tag, s, n) ==
    LET arm == DecodeArm(kind)
    IN  [typ |-> kind, tag |-> tag,
         body |-> ("kind" :> kind)
                    @@ Rec(arm, [i \in DOMAIN arm |->
                                    Sample(arm[i][2], s + i, n)])]

CodecMsgs ==
    {SampleMsg(k, t, s, n) :
        k \in Kinds, t \in CodecTags, s \in 0..MaxSeed, n \in 0..MaxLen}

\* type bytes a peer can send that are no message kind, and Tlerror
BadTypes == {0, 6, 10, 28, 106, 124, 255}

NoRes == [ok |-> FALSE, err |-> "none"]

\* the codec is not exercised
CodecIdle == [pc |-> "idle"]

(***************************************************************************)
(* State.                                                                  *)
(***************************************************************************)
VARIABLES
    mode,       \* "fork" (srv, ServerInstance) or "spawn" (srv_spawn)
    pc,         \* position of each connection's dispatch loop
    fsfids,     \* the fid table of each connection: raw fid -> Fid
    msg,        \* the request read by read_msg
    fids,       \* dispatch_once: the Fids taken from the table
    newfids,    \* dispatch_once: the Fids built for the new-fid positions
    reply,      \* the (Fcall, tag) returned by dispatch_once, with the
                \* Result the callback returned
    mutex,      \* Arc<Mutex<Fs>>: 0 when free, else the connection holding it
    pending,    \* tags of the requests read and not yet answered, oldest first
    sent,       \* frames written by the current iteration of the loop
    exit,       \* the error dispatch returned with, once the loop has ended
    allOk,      \* every callback invoked so far has returned Ok
    filesystem, \* the Filesystem served: "default" overrides no callback,
                \* "custom" is any other implementation
    poisoned,   \* Arc<Mutex<Fs>>: a holder has panicked
    msize,      \* the msize of the last Rversion written on each connection,
                \* 0 before the first
    codec,      \* the codec under test: see the section on serialize.rs
    listener,   \* srv: the accept loop and the processes it has forked
    mt          \* srv_mt: one MtServerInstance, its queue and its threads

vars == <<mode, pc, fsfids, msg, fids, newfids, reply, mutex, pending,
          sent, exit, allOk, filesystem, poisoned, msize, codec, listener, mt>>

NoMsg == [kind |-> "none"]
NoReply == [fcall |-> [kind |-> "none"]]
EmptyTable == [k \in {} |-> [fid |-> k, aux |-> None]]

\* variant: the entry is stored under another key than its raw fid
Insert_slot(table, f) ==
    LET k == (f.fid + 1) % (MaxFid + 1)
    IN  [j \in DOMAIN table \cup {k} |-> IF j = k THEN f ELSE table[j]]

\* HashMap::insert / HashMap::remove
Insert(table, f) ==
    [k \in DOMAIN table \cup {f.fid} |-> IF k = f.fid THEN f ELSE table[k]]
\* variant: HashMap::clear in the place of HashMap::remove
Remove_clear(table, k) == [j \in {} |-> table[j]]

Remove(table, k) ==
    [j \in DOMAIN table \ {k} |-> table[j]]

Range(s) == {s[i] : i \in DOMAIN s}

\* no connection accepted yet
\* srv before its first statement has run, no process forked
Unstarted ==
    [pc |-> "sigaction", sigchld |-> "default", stream |-> 0,
     process |-> [c \in Conns |-> "none"]]

\* the accept loop taken as running: Accept(c) stands for accept and fork
Listening == [Unstarted EXCEPT !.pc = "accept", !.sigchld = "ignore"]

\* MtServerInstance::new and the threads of dispatch spawned: nothing read,
\* every dispatcher thread waiting in rx.recv_sync()
MtStart ==
    [dispatch |-> "joining", reader |-> "reading", arrived |-> <<>>,
     head |-> 0, fsfids |-> {}, ok |-> {}, wire |-> <<>>,
     th |-> [t \in 1..NumDispatchers |-> [pc |-> "recv", tag |-> 0, left |-> 0]]]

StartInstances ==
    /\ mt = MtStart
    /\ pc = [c \in Conns |-> "unaccepted"]
    /\ fsfids = [c \in Conns |-> EmptyTable]
    /\ msg = [c \in Conns |-> NoMsg]
    /\ fids = [c \in Conns |-> <<>>]
    /\ newfids = [c \in Conns |-> <<>>]
    /\ reply = [c \in Conns |-> NoReply]
    /\ mutex = 0
    /\ pending = [c \in Conns |-> <<>>]
    /\ sent = [c \in Conns |-> <<>>]
    /\ exit = [c \in Conns |-> "running"]
    /\ allOk = TRUE
    /\ poisoned = FALSE
    /\ msize = [c \in Conns |-> 0]

StartServer ==
    /\ StartInstances
    /\ listener = Listening

\* the server starts, its streams carry abstract messages
Start ==
    /\ StartServer
    /\ codec = CodecIdle

\* srv or srv_spawn is called with some implementation of Filesystem
Init ==
    /\ mode \in {"fork", "spawn"}
    /\ filesystem = "custom"
    /\ Start

(***************************************************************************)
(* Accept loop: srv forks a child, srv_spawn spawns a worker; either       *)
(* builds a (Spawn)ServerInstance with an empty fid table and runs         *)
(* dispatch.                                                               *)
(***************************************************************************)
\* variant: the new instance starts from the table of another connection
Accept_inherit(c) ==
    /\ pc[c] = "unaccepted"
    /\ pc' = [pc EXCEPT ![c] = "read"]
    /\ fsfids' = [fsfids EXCEPT ![c] = fsfids[(c % NumConns) + 1]]
    /\ UNCHANGED <<mode, msg, fids, newfids, reply, mutex, pending,
                   sent, exit, allOk>>
    /\ UNCHANGED <<filesystem, poisoned, msize, codec, listener, mt>>

Accept(c) ==
    /\ pc[c] = "unaccepted"
    /\ pc' = [pc EXCEPT ![c] = "read"]
    /\ fsfids' = [fsfids EXCEPT ![c] = EmptyTable]
    /\ UNCHANGED <<mode, msg, fids, newfids, reply, mutex, pending,
                   sent, exit, allOk>>
    /\ UNCHANGED <<filesystem, poisoned, msize, codec, listener, mt>>

(***************************************************************************)
(* dispatch: serialize::read_msg(&mut self.stream)?                        *)
(***************************************************************************)
ReadMsg(c, m) ==
    /\ pc[c] = "read"
    /\ msg' = [msg EXCEPT ![c] = m]
    /\ pending' = [pending EXCEPT ![c] = Append(@, m.tag)]
    /\ pc' = [pc EXCEPT ![c] = IF mode = "spawn" THEN "lock" ELSE "dispatch"]
    /\ UNCHANGED <<mode, fsfids, fids, newfids, reply, mutex, sent,
                   exit, allOk>>
    /\ UNCHANGED <<filesystem, poisoned, msize, codec, listener, mt>>

\* read_msg fails (peer closed, framing error): `?` leaves the loop
ReadFail(c) ==
    /\ pc[c] = "read"
    /\ pc' = [pc EXCEPT ![c] = "finished"]
    /\ exit' = [exit EXCEPT ![c] = "read_msg"]
    /\ UNCHANGED <<mode, fsfids, msg, fids, newfids, reply, mutex, pending,
                   sent, allOk>>
    /\ UNCHANGED <<filesystem, poisoned, msize, codec, listener, mt>>

(***************************************************************************)
(* SpawnServerInstance::dispatch: self.fs.lock().unwrap()                  *)
(***************************************************************************)
\* variant: the worker does not wait for the mutex
AcquireLock_nowait(c) ==
    /\ pc[c] = "lock"
    /\ mutex' = c
    /\ pc' = [pc EXCEPT ![c] = "dispatch"]
    /\ UNCHANGED <<mode, fsfids, msg, fids, newfids, reply, pending,
                   sent, exit, allOk>>
    /\ UNCHANGED <<filesystem, poisoned, msize, codec, listener, mt>>

\* lock() waits for the mutex; on a poisoned mutex it returns
\* Err(PoisonError) and unwrap() panics: the worker thread ends
AcquireLock(c) ==
    /\ pc[c] = "lock"
    /\ mutex = 0
    /\ IF poisoned
       THEN /\ pc' = [pc EXCEPT ![c] = "finished"]
            /\ exit' = [exit EXCEPT ![c] = "PoisonError"]
            /\ msg' = [msg EXCEPT ![c] = NoMsg]
            /\ UNCHANGED mutex
       ELSE /\ mutex' = c
            /\ pc' = [pc EXCEPT ![c] = "dispatch"]
            /\ UNCHANGED <<exit, msg>>
    /\ UNCHANGED <<mode, fsfids, fids, newfids, reply, pending, sent, allOk>>
    /\ UNCHANGED <<filesystem, poisoned, msize, codec, listener, mt>>

\* variant: the MutexGuard lives to the end of the loop body
Unlock_keep(c) == mutex

\* the MutexGuard is a temporary of the dispatch_once statement
Unlock(c) == IF mutex = c THEN 0 ELSE mutex


(***************************************************************************)
(* dispatch_once, first part: take the referenced fids out of the table    *)
(* and build the new Fids.                                                 *)
(***************************************************************************)
\* for fid in msg.body.fids().iter().map(|f| fsfids.remove(&f).ok_or(f))
RECURSIVE TakeLoop(_, _, _)
TakeLoop(raw, table, acc) ==
    IF raw = <<>> THEN [ok |-> TRUE, table |-> table, fids |-> acc]
    ELSE IF Head(raw) \in DOMAIN table
         THEN TakeLoop(Tail(raw), Remove(table, Head(raw)),
                       Append(acc, table[Head(raw)]))
         ELSE [ok |-> FALSE, table |-> table, fids |-> acc]

\* .map(|f| Fid { fid: *f, aux: None })
NewFids(body) ==
    [i \in DOMAIN Fcall_newfid(body) |->
        [fid |-> Fcall_newfid(body)[i], aux |-> None]]

\* the request variants that have an arm in the match of dispatch_once
RequestKinds ==
    OneFidKinds \cup
    {"Tmknod", "Tmkdir", "Tunlinkat", "Trename", "Tlink", "Trenameat",
     "Twalk", "Txattrwalk", "Tauth", "Tattach", "Tversion", "Tflush"}

DispatchBegin(c) ==
    /\ pc[c] = "dispatch"
    /\ LET t == TakeLoop(Fcall_fid(msg[c]), fsfids[c], <<>>)
       IN  /\ fsfids' = [fsfids EXCEPT ![c] = t.table]
           /\ IF ~t.ok
              THEN \* return res!(io_err!(NotFound, "No associated Fid"))
                   /\ pc' = [pc EXCEPT ![c] = "finished"]
                   /\ exit' = [exit EXCEPT ![c] = "NotFound"]
                   /\ mutex' = Unlock(c)
                   /\ msg' = [msg EXCEPT ![c] = NoMsg]
                   /\ UNCHANGED <<fids, newfids>>
              ELSE IF msg[c].kind \notin RequestKinds
              THEN \* return res!(io_err!(Other, "Invalid 9P message received"))
                   /\ pc' = [pc EXCEPT ![c] = "finished"]
                   /\ exit' = [exit EXCEPT ![c] = "Invalid"]
                   /\ mutex' = Unlock(c)
                   /\ msg' = [msg EXCEPT ![c] = NoMsg]
                   /\ UNCHANGED <<fids, newfids>>
              ELSE /\ pc' = [pc EXCEPT ![c] = "callback"]
                   /\ fids' = [fids EXCEPT ![c] = t.fids]
                   /\ newfids' = [newfids EXCEPT ![c] = NewFids(msg[c])]
                   /\ UNCHANGED <<exit, mutex, msg>>
    /\ UNCHANGED <<mode, reply, pending, sent, allOk>>
    /\ UNCHANGED <<filesystem, poisoned, msize, codec, listener, mt>>

(***************************************************************************)
(* dispatch_once, second part: the callback returns, the fids go back.     *)
(***************************************************************************)
\* .unwrap_or_else(|e| Fcall::Rlerror { ecode: e.errno() as u32 })
Response(r, body) ==
    IF r.ok THEN r.fcall
    ELSE [kind |-> "Rlerror", ecode |-> errno(r.err)]

\* variant: the fid is dropped whatever rclunk returns
FidsAfterCallback_always(body, r, fs) ==
    IF body.kind = "Tclunk" THEN <<>> ELSE fs

\* Tclunk: fs.rclunk(&mut fids[0]).map(|e| { fids.clear(); e });
\* every other arm leaves the vector alone
FidsAfterCallback(body, r, fs) ==
    IF body.kind = "Tclunk" /\ r.ok THEN <<>> ELSE fs

RECURSIVE InsertAll(_, _)
InsertAll(table, fs) ==
    IF fs = <<>> THEN table
    ELSE InsertAll(Insert(table, Head(fs)), Tail(fs))

\* variant: a request with a new fid moves the fid instead of adding one
Reinsert_move(table, fs, nfs) ==
    IF nfs # <<>> THEN InsertAll(table, nfs) ELSE InsertAll(table, fs)

\* for f in fids { fsfids.insert(f.fid, f); }
\* for f in newfids { fsfids.insert(f.fid, f); }
Reinsert(table, fs, nfs) ==
    InsertAll(InsertAll(table, fs), nfs)

\* variant: the reply carries the tag of another request
ReplyTag_other(m) == (m.tag % MaxTag) + 1

\* Ok((response, msg.tag))
ReplyTag(m) == m.tag

\* the callback may assign the aux of every Fid it is handed
SetAux(v, a) ==
    [i \in DOMAIN v |-> [v[i] EXCEPT !.aux = a[i]]]

\* the aux values the callback leaves in the Fids v: the default methods
\* ignore their arguments
AuxChoices(f, v) ==
    IF f = "default" THEN {[i \in DOMAIN v |-> v[i].aux]}
    ELSE [DOMAIN v -> AuxOpt]

\* the claim's reading of the fid life cycle
Introduced(body) ==
    IF body.kind \in {"Tattach", "Tauth", "Twalk"}
    THEN Range(Fcall_newfid(body)) ELSE {}
Destroyed(body) ==
    IF body.kind \in {"Tclunk", "Tremove"} THEN {body.fid} ELSE {}

\* the callback returns r and leaves fs in fids and nfs in newfids: the
\* response is built, the Fids go back under their raw fids
DispatchReturn(c, r, fs, nfs) ==
    /\ pc[c] = "callback"
    /\ fsfids' = [fsfids EXCEPT
          ![c] = Reinsert(@, FidsAfterCallback(msg[c], r, fs), nfs)]
    /\ reply' = [reply EXCEPT
          ![c] = [fcall |-> Response(r, msg[c]),
                  tag |-> ReplyTag(msg[c]),
                  res |-> r]]
    /\ allOk' = (allOk /\ r.ok)
    /\ fids' = [fids EXCEPT ![c] = <<>>]
    /\ newfids' = [newfids EXCEPT ![c] = <<>>]
    /\ mutex' = Unlock(c)
    /\ pc' = [pc EXCEPT ![c] = "respond"]
    /\ UNCHANGED <<mode, msg, pending, sent, exit>>
    /\ UNCHANGED <<filesystem, poisoned, msize, codec, listener, mt>>

\* the callback returns r after assigning the aux values a in fids and b in
\* newfids
DispatchEndWith(c, r, a, b) ==
    DispatchReturn(c, r, SetAux(fids[c], a), SetAux(newfids[c], b))

DispatchEnd(c) ==
    /\ pc[c] = "callback"
    /\ \E r \in Callback(filesystem, msg[c]),
          a \in AuxChoices(filesystem, fids[c]),
          b \in AuxChoices(filesystem, newfids[c]) :
          DispatchEndWith(c, r, a, b)

\* what a callback can leave in the Fids it holds by `&mut`, beyond a new
\* aux: the field fid is private, but std::mem::swap of two of the Fids, or
\* the assignment of a clone of one to another (Fid derives Clone), leaves
\* in each the raw fid of any of them
Overwrites(v) ==
    [DOMAIN v -> [fid : {v[i].fid : i \in DOMAIN v}, aux : AuxOpt]]

\* the callback returns after assigning whole Fids
DispatchEndOverwrite(c) ==
    /\ pc[c] = "callback"
    /\ filesystem = "custom"
    /\ LET n == Len(fids[c])
       IN  \E r \in Callback(filesystem, msg[c]),
              h \in Overwrites(fids[c] \o newfids[c]) :
              DispatchReturn(c, r, SubSeq(h, 1, n), SubSeq(h, n + 1, Len(h)))

\* the callback panics: the stack of the worker unwinds, the Fids taken are
\* dropped, and the MutexGuard is dropped by a panicking thread, which
\* poisons the mutex
CallbackPanic(c) ==
    /\ pc[c] = "callback"
    /\ pc' = [pc EXCEPT ![c] = "finished"]
    /\ exit' = [exit EXCEPT ![c] = "panic"]
    /\ poisoned' = (poisoned \/ mutex = c)
    /\ mutex' = Unlock(c)
    /\ msg' = [msg EXCEPT ![c] = NoMsg]
    /\ fids' = [fids EXCEPT ![c] = <<>>]
    /\ newfids' = [newfids EXCEPT ![c] = <<>>]
    /\ UNCHANGED <<mode, fsfids, reply, pending, sent, allOk>>
    /\ UNCHANGED <<filesystem, msize, codec, listener, mt>>

(***************************************************************************)
(* respond: pick the MsgType of the reply and write the frame.             *)
(***************************************************************************)
ResponseKinds ==
    {RKind(k) : k \in RequestKinds} \cup {"Rlerror"}

\* variant: the Rmkdir arm of the match picks the MsgType of Rmknod
ReplyFrame_arm(res, tag) ==
    [typ |-> IF res.kind = "Rmkdir" THEN "Rmknod" ELSE res.kind,
     tag |-> tag, body |-> res]

\* let msg_type = match res { Fcall::Rlerror { .. } => MsgType::Rlerror, .. };
\* let msg = Msg { typ: msg_type, tag: tag, body: res };
ReplyFrame(res, tag) ==
    [typ |-> res.kind, tag |-> tag, body |-> res]

\* Msg::encode: the size of the frame of a reply, the 4-byte prefix, the
\* type byte and the 2-byte tag included; body fields the model leaves out
\* count for nothing
FrameLen(frame) ==
    4 + 1 + 2 +
    CASE frame.typ = "Rlerror" -> 4
      [] frame.typ = "Rversion" -> 4 + 2 + Len(frame.body.version)
      [] frame.typ = "Rread" -> 4 + frame.body.data
      [] OTHER -> 0

\* a reply answers the oldest unanswered request that carries its tag
RECURSIVE Answered(_, _)
Answered(tags, t) ==
    IF tags = <<>> THEN <<>>
    ELSE IF Head(tags) = t THEN Tail(tags)
    ELSE <<Head(tags)>> \o Answered(Tail(tags), t)

\* variant: the loop goes back to read_msg without writing the reply
Respond_skip(c) ==
    /\ pc[c] = "respond"
    /\ pc' = [pc EXCEPT ![c] = "replied"]
    /\ UNCHANGED <<mode, fsfids, msg, fids, newfids, reply, mutex, pending,
                   sent, exit, allOk>>
    /\ UNCHANGED <<filesystem, poisoned, msize, codec, listener, mt>>

\* respond(stream, tag, fcall): the frame is written or write_msg fails
WriteReply(c) ==
    /\ pc[c] = "respond"
    /\ \E written \in BOOLEAN :
          IF reply[c].fcall.kind \in ResponseKinds /\ written
          THEN /\ sent' = [sent EXCEPT
                    ![c] = Append(@, ReplyFrame(reply[c].fcall, reply[c].tag))]
               /\ pending' = [pending EXCEPT ![c] = Answered(@, reply[c].tag)]
               /\ pc' = [pc EXCEPT ![c] = "replied"]
               /\ UNCHANGED <<exit, msg, reply>>
          ELSE \* write_msg failed: `?` leaves the loop
               /\ pc' = [pc EXCEPT ![c] = "finished"]
               /\ exit' = [exit EXCEPT ![c] = "write_msg"]
               /\ msg' = [msg EXCEPT ![c] = NoMsg]
               /\ reply' = [reply EXCEPT ![c] = NoReply]
               /\ UNCHANGED <<sent, pending>>
    /\ UNCHANGED <<mode, fsfids, fids, newfids, mutex, allOk>>
    /\ UNCHANGED <<filesystem, poisoned, codec, listener, mt>>

Respond(c) ==
    /\ WriteReply(c)
    /\ UNCHANGED msize

\* the same step with the msize of a written Rversion recorded
RespondSession(c) ==
    /\ WriteReply(c)
    /\ msize' = IF sent'[c] # sent[c] /\ reply[c].fcall.kind = "Rversion"
                THEN [msize EXCEPT ![c] = reply[c].fcall.msize]
                ELSE msize

\* end of the loop body: msg and the reply are dropped, the loop goes back
\* to read_msg
LoopBack(c) ==
    /\ pc[c] = "replied"
    /\ pc' = [pc EXCEPT ![c] = "read"]
    /\ msg' = [msg EXCEPT ![c] = NoMsg]
    /\ reply' = [reply EXCEPT ![c] = NoReply]
    /\ sent' = [sent EXCEPT ![c] = <<>>]
    /\ UNCHANGED <<mode, fsfids, fids, newfids, mutex, pending, exit, allOk>>
    /\ UNCHANGED <<filesystem, poisoned, msize, codec, listener, mt>>

(***************************************************************************)
(* Specifications.                                                         *)
(***************************************************************************)
\* one connection, every request
Next ==
    \/ Accept(1)
    \/ \E m \in Msgs : ReadMsg(1, m)
    \/ ReadFail(1)
    \/ AcquireLock(1)
    \/ DispatchBegin(1)
    \/ DispatchEnd(1)
    \/ Respond(1)
    \/ LoopBack(1)

Spec == Init /\ [][Next]_vars

\* the requests the clients of the srv_spawn model send
SpawnMsgs ==
    {[kind |-> "Tattach", tag |-> 1, fid |-> 0],
     [kind |-> "Tread", tag |-> 1, fid |-> 0]}

InitSpawn == Init /\ mode = "spawn"

NextSpawn ==
    \E c \in Conns :
        \/ Accept(c)
        \/ \E m \in SpawnMsgs : ReadMsg(c, m)
        \/ ReadFail(c)
        \/ AcquireLock(c)
        \/ DispatchBegin(c)
        \/ DispatchEnd(c)
        \/ CallbackPanic(c)
        \/ Respond(c)
        \/ LoopBack(c)

SpecSpawn == InitSpawn /\ [][NextSpawn]_vars

(***************************************************************************)
(* srv: the accept loop of the parent and the children it forks.           *)
(***************************************************************************)
\* sigaction(Signal::SIGCHLD, SigHandler::SigIgn)?, before the loop
Sigaction ==
    /\ listener.pc = "sigaction"
    /\ listener' = [listener EXCEPT !.pc = "accept", !.sigchld = "ignore"]
    /\ UNCHANGED <<mode, pc, fsfids, msg, fids, newfids, reply, mutex, pending,
                   sent, exit, allOk, filesystem, poisoned, msize, codec, mt>>

\* let (stream, remote) = listener.accept_client()?
AcceptClient(c) ==
    /\ listener.pc = "accept"
    /\ pc[c] = "unaccepted"
    /\ listener.process[c] = "none"
    /\ listener' = [listener EXCEPT !.pc = "fork", !.stream = c]
    /\ UNCHANGED <<mode, pc, fsfids, msg, fids, newfids, reply, mutex, pending,
                   sent, exit, allOk, filesystem, poisoned, msize, codec, mt>>

\* variant: no fork, the accepting process runs dispatch itself
Fork_parent(c) ==
    /\ listener.pc = "fork"
    /\ listener.stream = c
    /\ listener' = [listener EXCEPT !.pc = "dispatch", !.stream = 0,
                                    !.process[c] = "parent"]
    /\ pc' = [pc EXCEPT ![c] = "read"]
    /\ fsfids' = [fsfids EXCEPT ![c] = EmptyTable]
    /\ UNCHANGED <<mode, msg, fids, newfids, reply, mutex, pending,
                   sent, exit, allOk, filesystem, poisoned, msize, codec, mt>>

\* match fork()? { Parent => {} (next iteration),
\*                 Child => ServerInstance::new(filesystem, stream)?.dispatch() }
Fork(c) ==
    /\ listener.pc = "fork"
    /\ listener.stream = c
    /\ listener' = [listener EXCEPT !.pc = "accept", !.stream = 0,
                                    !.process[c] = "child"]
    /\ pc' = [pc EXCEPT ![c] = "read"]
    /\ fsfids' = [fsfids EXCEPT ![c] = EmptyTable]
    /\ UNCHANGED <<mode, msg, fids, newfids, reply, mutex, pending,
                   sent, exit, allOk, filesystem, poisoned, msize, codec, mt>>

\* sigaction(..)?, accept_client()? or fork()? gives Err: srv returns it and
\* an accepted stream is dropped
SrvFail ==
    /\ listener.pc \in {"sigaction", "accept", "fork"}
    /\ listener' = [listener EXCEPT !.pc = "returned", !.stream = 0]
    /\ UNCHANGED <<mode, pc, fsfids, msg, fids, newfids, reply, mutex, pending,
                   sent, exit, allOk, filesystem, poisoned, msize, codec, mt>>

\* the child's dispatch has returned: std::process::exit(1)
ChildExit(c) ==
    /\ listener.process[c] = "child"
    /\ pc[c] = "finished"
    /\ listener' = [listener EXCEPT !.process[c] = "exited"]
    /\ UNCHANGED <<mode, pc, fsfids, msg, fids, newfids, reply, mutex, pending,
                   sent, exit, allOk, filesystem, poisoned, msize, codec, mt>>

\* the request the clients of the accept-loop model send
ForkMsgs == {[kind |-> "Tattach", tag |-> 1, fid |-> 0]}

InitFork ==
    /\ mode = "fork"
    /\ filesystem = "custom"
    /\ StartInstances
    /\ codec = CodecIdle
    /\ listener = Unstarted

NextFork ==
    \/ Sigaction
    \/ SrvFail
    \/ \E c \in Conns :
          \/ AcceptClient(c)
          \/ Fork(c)
          \/ \E m \in ForkMsgs : ReadMsg(c, m)
          \/ ReadFail(c)
          \/ DispatchBegin(c)
          \/ DispatchEnd(c)
          \/ Respond(c)
          \/ LoopBack(c)
          \/ ChildExit(c)

SpecFork == InitFork /\ [][NextFork]_vars

\* srv_spawn with two workers whose callbacks all return
Workers == {1, 2}

NextWorkers ==
    \E c \in Workers :
        \/ Accept(c)
        \/ \E m \in SpawnMsgs : ReadMsg(c, m)
        \/ ReadFail(c)
        \/ AcquireLock(c)
        \/ DispatchBegin(c)
        \/ DispatchEnd(c)
        \/ Respond(c)
        \/ LoopBack(c)

\* a worker that can go on does: lock() returns once the mutex is free,
\* dispatch_once runs and every callback returns, and the reply of worker
\* 1 gets written or fails.  Nothing makes a client send a request, and
\* nothing makes the client of worker 2 take its reply.
FairWorkers ==
    /\ \A c \in Workers :
          /\ WF_vars(AcquireLock(c))
          /\ WF_vars(DispatchBegin(c))
          /\ WF_vars(DispatchEnd(c))
    /\ WF_vars(Respond(1))

SpecWorkers == InitSpawn /\ [][NextWorkers]_vars /\ FairWorkers

\* one connection served with a Filesystem that overrides no method
InitDefault ==
    /\ mode \in {"fork", "spawn"}
    /\ filesystem = "default"
    /\ Start

SpecDefault == InitDefault /\ [][Next]_vars

\* one connection served by srv: a version handshake, an attach and reads,
\* with the negotiated msize recorded
SessionMsgs ==
    [kind : {"Tversion"}, tag : Tags, msize : Msizes, version : {P92000L}]
      \cup [kind : {"Tattach", "Tread", "Tclunk"}, tag : Tags, fid : RawFids]

InitSession ==
    /\ mode = "fork"
    /\ filesystem = "custom"
    /\ Start

NextSession ==
    \/ Accept(1)
    \/ \E m \in SessionMsgs : ReadMsg(1, m)
    \/ ReadFail(1)
    \/ DispatchBegin(1)
    \/ DispatchEnd(1)
    \/ RespondSession(1)
    \/ LoopBack(1)

SpecSession == InitSession /\ [][NextSession]_vars

(***************************************************************************)
(* The codec between a peer and the dispatch loop of connection 1: the     *)
(* peer encodes a message (write_msg), may put another type byte into the  *)
(* frame, and the dispatch loop reads it (read_msg).                       *)
(***************************************************************************)
srvvars ==
    <<mode, filesystem, fsfids, pc, msg, fids, newfids, reply, mutex,
      pending, sent, exit, allOk, poisoned, msize, listener, mt>>

\* every variable but mt
srvvars_mt ==
    <<mode, filesystem, fsfids, pc, msg, fids, newfids, reply, mutex,
      pending, sent, exit, allOk, poisoned, msize, listener>>

InitCodec ==
    /\ mode = "fork"
    /\ filesystem = "custom"
    /\ StartServer
    /\ codec \in {[pc |-> "encode", msg |-> m, wire |-> <<>>, ret |-> 0,
                   res |-> NoRes] : m \in CodecMsgs}

\* write_msg(w, &msg): the frame is written to the stream
write_msg ==
    /\ codec.pc = "encode"
    /\ LET e == Msg_encode(codec.msg)
       IN  codec' = [codec EXCEPT !.pc = "wire", !.wire = e.bytes,
                                  !.ret = e.ret]
    /\ UNCHANGED srvvars

\* the peer sends the frame with the type byte b instead
PeerSendsType(b) ==
    /\ codec.pc = "wire"
    /\ codec.wire = Msg_encode(codec.msg).bytes
    /\ codec' = [codec EXCEPT !.wire[5] = b]
    /\ UNCHANGED srvvars

\* read_msg(r) in the dispatch loop of connection 1
read_msg ==
    /\ codec.pc = "wire"
    /\ pc[1] = "read"
    /\ codec' = [codec EXCEPT !.pc = "decoded",
                              !.res = Msg_decode(codec.wire)]
    /\ UNCHANGED srvvars

\* try!(read_msg(...)) on an Err: dispatch returns, nothing is written
ReadMsgErr ==
    /\ codec.pc = "decoded"
    /\ ~codec.res.ok
    /\ ReadFail(1)

NextCodec ==
    \/ Accept(1)
    \/ write_msg
    \/ \E b \in BadTypes : PeerSendsType(b)
    \/ read_msg
    \/ ReadMsgErr

SpecCodec == InitCodec /\ [][NextCodec]_vars

\* the lengths in bytes of the strings the codec is handed: short ones and
\* the first lengths that do not fit the u16 of the prefix
StrLens == {0, 1, 2, 3, 65536, 65537, 65538}

\* a String of n bytes: ASCII letters, or a 2-byte character first
Str(n, wide) ==
    [i \in 1..n |-> IF wide /\ n >= 2 /\ i <= 2
                    THEN (IF i = 1 THEN 195 ELSE 169)
                    ELSE 97 + (i % 26)]

\* byte sequences that are no UTF-8: a byte that never occurs, an overlong
\* form, a surrogate and a cut sequence
BadUtf8 == <<<<255>>, <<192, 128>>, <<97, 237, 160, 128>>, <<226, 130>>>>

\* what the codec is exercised on, named by its parameters: a Tversion or
\* Rversion whose string is Str(n, wide), or BadUtf8[bad] when bad > 0, or
\* a Twalk with n names
StringInputs ==
    [typ : {"Tversion", "Rversion"}, tag : CodecTags, n : StrLens,
     wide : BOOLEAN, bad : {0}]
      \cup [typ : {"Twalk"}, tag : CodecTags, n : 0..2, wide : {FALSE},
            bad : {0}]

\* the frames of a peer whose strings are not UTF-8
BadUtf8Inputs ==
    [typ : {"Tversion"}, tag : CodecTags, n : {0}, wide : {FALSE},
     bad : DOMAIN BadUtf8]

\* the string and the message an input names
StringOf(in) == IF in.bad > 0 THEN BadUtf8[in.bad] ELSE Str(in.n, in.wide)
MsgOf(in) ==
    IF in.typ = "Twalk"
    THEN [typ |-> "Twalk", tag |-> in.tag,
          body |-> [kind |-> "Twalk", fid |-> 1, newfid |-> 2,
                    wnames |-> [i \in 1..in.n |-> Str(i - 1, FALSE)]]]
    ELSE [typ |-> in.typ, tag |-> in.tag,
          body |-> [kind |-> in.typ, msize |-> 8192,
                    version |-> StringOf(in)]]

\* what is seen of a frame: the 2-byte prefix of the string (of the vector
\* of a Twalk), how many bytes follow it to the end of the frame, and
\* whether those are the bytes of the string
Seen(in, wire) ==
    LET at == IF in.typ = "Twalk" THEN 16 ELSE 12
    IN  [prefix |-> FromLE(SubSeq(wire, at, at + 1)),
         rest |-> Len(wire) - (at + 1),
         same |-> SubSeq(wire, at + 2, Len(wire)) = StringOf(in)]

\* write_msg is handed a message with a string, or the peer has sent a
\* frame whose string is not UTF-8
InitString ==
    /\ mode = "fork"
    /\ filesystem = "custom"
    /\ StartServer
    /\ codec \in
          {[pc |-> "encode", in |-> in,
            seen |-> [prefix |-> 0, rest |-> 0, same |-> TRUE],
            res |-> NoRes] : in \in StringInputs}
          \cup
          {[pc |-> "wire", in |-> in,
            seen |-> Seen(in, Msg_encode(MsgOf(in)).bytes),
            res |-> NoRes] : in \in BadUtf8Inputs}

\* write_msg(w, &msg) of the message with the string
WriteString ==
    /\ codec.pc = "encode"
    /\ codec' = [codec EXCEPT
          !.pc = "wire",
          !.seen = Seen(codec.in, Msg_encode(MsgOf(codec.in)).bytes)]
    /\ UNCHANGED srvvars

\* read_msg(r) of the frame
ReadString ==
    /\ codec.pc = "wire"
    /\ codec' = [codec EXCEPT
          !.pc = "decoded",
          !.res = Msg_decode(Msg_encode(MsgOf(codec.in)).bytes)]
    /\ UNCHANGED srvvars

NextString ==
    \/ WriteString
    \/ ReadString

SpecString == InitString /\ [][NextString]_vars

(***************************************************************************)
(* read_msg on a stream that delivers its bytes in pieces.  The peer has   *)
(* written codec.input and then closed; codec.stream is what the reader    *)
(* has not taken yet, codec.buf the buffer being filled (the 4 bytes of    *)
(* read_u32, then the create_buffer(size) of read_exact).                  *)
(***************************************************************************)
\* the frame that follows on the stream
NextFrame == Msg_encode(SampleMsg("Tclunk", 1, 0, 0)).bytes

\* how many bytes the peer writes before it closes: it stops inside the
\* prefix, inside the header, one byte short of the frame, at its end,
\* inside the following frame or after it
Cuts(frame) ==
    {0, 2, 4, 6, Len(frame) - 1, Len(frame), Len(frame) + 3,
     Len(frame) + Len(NextFrame)}

\* frames that advertise less than the 7 bytes of a header, but at least
\* the 4 bytes of the prefix itself
ShortFrames == {LE(4, 4), LE(5, 4) \o <<120>>, LE(6, 4) \o <<120, 1>>}

\* the frames a peer sends: every sampled message as write_msg frames it,
\* and the short frames
Frames == {Msg_encode(m).bytes : m \in CodecMsgs} \cup ShortFrames

\* Msg::decode is entered on a stream that holds the first k bytes of
\* frame and the following frame; hi is the upper 16-bit limb of the
\* length of the buffer read_exact fills
ReaderAt(frame, k) ==
    LET input == SubSeq(frame \o NextFrame, 1, k)
    IN  [pc |-> "size", frame |-> frame, input |-> input,
         stream |-> input, buf |-> <<>>, want |-> 4, hi |-> 0,
         intr |-> 0, res |-> NoRes]

InitRead ==
    /\ mode = "fork"
    /\ filesystem = "custom"
    /\ StartServer
    /\ \E frame \in Frames :
         \E k \in Cuts(frame) : codec = ReaderAt(frame, k)

Min(a, b) == IF a < b THEN a ELSE b

\* r.read(&mut buf[nread..]) returns Ok(n), n > 0: never more than the rest
\* of the buffer; the read that fills the buffer ends read_full, and the
\* one that fills the body buffer is followed by the parse of the Cursor
ReadSome(n) ==
    /\ codec.pc \in {"size", "body"}
    /\ n >= 1
    /\ n <= Min(codec.want - Len(codec.buf), Len(codec.stream))
    /\ LET buf == codec.buf \o SubSeq(codec.stream, 1, n)
           rest == SubSeq(codec.stream, n + 1, Len(codec.stream))
           size == BodyLen(FromLE(buf))
       IN  IF codec.pc = "size" /\ Len(buf) = codec.want /\ size < 0
           THEN \* r.read_u32()? - 4 overflows: a build with overflow checks
                \* panics, a build without them goes on with the wrapped
                \* length
                \/ codec' = [codec EXCEPT !.pc = "panicked", !.buf = <<>>,
                                          !.stream = rest]
                \/ codec' = [codec EXCEPT
                                !.pc = "body", !.buf = <<>>, !.stream = rest,
                                !.want = wrapping_sub4(FromLE(buf)).lo,
                                !.hi = wrapping_sub4(FromLE(buf)).hi]
           ELSE
           codec' =
             IF codec.hi > 0 \/ Len(buf) < codec.want
             THEN [codec EXCEPT !.buf = buf, !.stream = rest]
             ELSE IF codec.pc = "size" /\ size > 0
             THEN [codec EXCEPT !.pc = "body", !.buf = <<>>,
                                !.want = size, !.stream = rest]
             ELSE IF codec.pc = "size"
             THEN [codec EXCEPT !.pc = "parsed", !.buf = <<>>,
                                !.want = size, !.stream = rest,
                                !.res = Msg_decode_buf(<<>>)]
             ELSE [codec EXCEPT !.pc = "parsed", !.buf = buf,
                                !.stream = rest,
                                !.res = Msg_decode_buf(buf)]
    /\ UNCHANGED srvvars

\* r.read returns Ok(0): the peer has closed and nothing is left
ReadEOF ==
    /\ codec.pc \in {"size", "body"}
    /\ codec.stream = <<>>
    /\ codec' = [codec EXCEPT !.pc = "failed",
                              !.res = MsgErr("UnexpectedEOF")]
    /\ UNCHANGED srvvars

\* r.read returns Err of kind Interrupted: the loop calls read again
ReadInterrupted ==
    /\ codec.pc \in {"size", "body"}
    /\ codec.intr < MaxIntr
    /\ codec' = [codec EXCEPT !.intr = @ + 1]
    /\ UNCHANGED srvvars

\* r.read returns any other Err: read_full returns it
ReadError ==
    /\ codec.pc \in {"size", "body"}
    /\ codec' = [codec EXCEPT !.pc = "failed", !.res = MsgErr("Io")]
    /\ UNCHANGED srvvars

NextRead ==
    \/ \E n \in {1, Min(codec.want - Len(codec.buf), Len(codec.stream))} :
         ReadSome(n)
    \/ ReadEOF
    \/ ReadInterrupted
    \/ ReadError

SpecRead == InitRead /\ [][NextRead]_vars

\* frames whose prefix is below the 7 bytes of a header: the prefix 0..6
\* and then the type byte and the tag a peer may send after it
BadSizeFrames == {LE(n, 4) \o <<120, 1, 0>> : n \in 0..6}

\* how many bytes the peer writes before it closes
BadSizeCuts(frame) == {4, 5, Len(frame), Len(frame) + Len(NextFrame)}

InitBadSize ==
    /\ mode = "fork"
    /\ filesystem = "custom"
    /\ StartServer
    /\ \E frame \in BadSizeFrames :
         \E k \in BadSizeCuts(frame) : codec = ReaderAt(frame, k)

\* the reader on frames with a bad size prefix
SpecBadSize == InitBadSize /\ [][NextRead]_vars

\* one connection served for a backend whose callbacks assign whole Fids:
\* requests whose callback holds one new Fid, one Fid, a Fid and a new one,
\* or two Fids
OverwriteMsgs ==
    {m \in Msgs : m.kind \in {"Tattach", "Tclunk", "Twalk", "Trename"}}

NextOverwrite ==
    \/ Accept(1)
    \/ \E m \in OverwriteMsgs : ReadMsg(1, m)
    \/ ReadFail(1)
    \/ AcquireLock(1)
    \/ DispatchBegin(1)
    \/ DispatchEndOverwrite(1)
    \/ Respond(1)
    \/ LoopBack(1)

SpecOverwrite == Init /\ [][NextOverwrite]_vars

(***************************************************************************)
(* Properties.                                                             *)
(***************************************************************************)
Keys(c) == DOMAIN fsfids[c]

\* the keys of the table when the request was read: what is still in the
\* table plus what dispatch_once has taken out of it
KeysBefore(c) == DOMAIN fsfids[c] \cup {fids[c][i].fid : i \in DOMAIN fids[c]}

\* dispatch_once has returned Ok((response, tag)) for the request msg[c]
Served(c) == pc[c] = "respond"

TypeOK ==
    /\ mode \in {"fork", "spawn"}
    /\ mutex \in {0} \cup Conns
    /\ \A c \in Conns :
        /\ pc[c] \in {"unaccepted", "read", "lock", "dispatch", "callback",
                      "respond", "replied", "finished"}
        /\ DOMAIN fsfids[c] \subseteq RawFids


\* the requests that introduce a fid
IntroKinds == {"Tattach", "Tauth", "Twalk", "Txattrwalk"}

\* msg[c] names, in an existing-fid position, a value that is no key
Missing(c) ==
    \E i \in DOMAIN Fcall_fid(msg[c]) : Fcall_fid(msg[c])[i] \notin Keys(c)

\* the errno the claim expects for a backend error: the errno itself, the
\* raw OS errno of an I/O error, or ENOENT for a not-found I/O error
ClaimedErrno(e) ==
    CASE e.var = "No" -> e.no
      [] e.var = "Io" /\ e.raw # NoRaw -> e.raw
      [] e.var = "Io" /\ e.raw = NoRaw /\ e.kind = "NotFound" -> 2

Last(s) == s[Len(s)]

\* C1: fid closure. While every callback has returned Ok, serving a request
\* leaves as keys of the fid table the keys before the request, plus the
\* fids introduced by Tattach, Tauth or as the newfid of Twalk, minus the
\* fid named by a Tclunk or a Tremove.
C1_FidClosure ==
    [][\A c \in Conns :
          (pc[c] = "callback" /\ pc'[c] = "respond" /\ allOk')
          => Keys(c)' = (KeysBefore(c) \cup Introduced(msg[c]))
                            \ Destroyed(msg[c])]_vars

\* C2: unknown fid. A request that names a fid that is no key of the table
\* is answered with Rlerror{ENOENT} on its tag and the connection goes on.
C2_UnknownFid ==
    [][\A c \in Conns :
          (pc[c] = "dispatch" /\ Missing(c) /\ pc'[c] # "dispatch")
          => /\ pc'[c] = "respond"
             /\ reply'[c].fcall = [kind |-> "Rlerror", ecode |-> ENOENT]
             /\ reply'[c].tag = msg[c].tag]_vars

\* C3: backend errors. When the callback returns Err(e), dispatch_once
\* returns Rlerror{e.errno()} with the request's tag; unless the transport
\* fails, exactly that one frame is written and the loop reads the next
\* request.
C3_BackendError ==
    [][\A c \in Conns :
          /\ (pc[c] = "callback" /\ pc'[c] # "callback" /\ ~reply'[c].res.ok)
             => /\ pc'[c] = "respond"
                /\ reply'[c].fcall =
                      [kind |-> "Rlerror",
                       ecode |-> ClaimedErrno(reply'[c].res.err)]
                /\ reply'[c].tag = msg[c].tag
          /\ (pc[c] = "respond" /\ pc'[c] # "respond" /\ ~reply[c].res.ok)
             => \/ pc'[c] = "finished" /\ exit'[c] = "write_msg"
                \/ /\ pc'[c] = "replied"
                   /\ sent'[c] = <<[typ |-> "Rlerror", tag |-> msg[c].tag,
                                    body |-> reply[c].fcall]>>
          /\ (pc[c] = "replied" /\ pc'[c] # "replied") => pc'[c] = "read"]_vars

\* the Rlerror for a backend I/O error with a raw errno has been written
C3_Witness ==
    \E c \in Conns :
        /\ pc[c] = "replied"
        /\ ~reply[c].res.ok
        /\ sent[c] # <<>>
        /\ sent[c][1].typ = "Rlerror"
        /\ sent[c][1].body.ecode = EACCES

\* C4: reply tag equality. Every reply frame written carries the tag of the
\* request being served.
C4_ReplyTag ==
    [][\A c \in Conns :
          (sent'[c] # sent[c] /\ sent'[c] # <<>>)
          => /\ msg[c] # NoMsg
             /\ Last(sent'[c]).tag = msg[c].tag]_vars

\* the reply to a successful walk has been written on the last tag
C4_Witness ==
    \E c \in Conns :
        /\ pc[c] = "replied"
        /\ sent[c] # <<>>
        /\ sent[c][1].tag = MaxTag
        /\ sent[c][1].typ = "Rwalk"

\* C5: clunk under errors. After Tclunk{fid=F} with F live, F is still a key
\* of the table if rclunk returned Err and is no key if rclunk returned Ok.
C5_Clunk ==
    \A c \in Conns :
        (Served(c) /\ msg[c].kind = "Tclunk")
        => (reply[c].res.ok <=> msg[c].fid \notin Keys(c))

\* rclunk has failed and the fid is still there
C5_Witness ==
    \E c \in Conns :
        /\ Served(c)
        /\ msg[c].kind = "Tclunk"
        /\ ~reply[c].res.ok
        /\ msg[c].fid \in Keys(c)

\* C6: remove clunks implicitly. After Tremove{fid=F} with F live and
\* rremove returning Ok, F is no key of the table.
C6_Remove ==
    \A c \in Conns :
        (Served(c) /\ msg[c].kind = "Tremove" /\ reply[c].res.ok)
        => msg[c].fid \notin Keys(c)

\* C7: failed introduction leaves no fid. When the callback of a request
\* that introduces a fid returns Err, the new fid (no key before the
\* request) is no key after it.
C7_FailedIntro ==
    [][\A c \in Conns :
          (/\ pc[c] = "callback" /\ pc'[c] = "respond"
           /\ msg[c].kind \in IntroKinds
           /\ ~reply'[c].res.ok)
          => \A f \in Range(Fcall_newfid(msg[c])) \ KeysBefore(c) :
                f \notin Keys(c)']_vars

\* C8: newfid insertion. After Twalk{fid, newfid} with rwalk returning Ok,
\* fid and newfid are keys of the table (one key when they are equal).
C8_Newfid ==
    \A c \in Conns :
        (Served(c) /\ msg[c].kind = "Twalk" /\ reply[c].res.ok)
        => /\ {msg[c].fid, msg[c].newfid} \subseteq Keys(c)
           /\ (msg[c].newfid = msg[c].fid
               => Cardinality({k \in Keys(c) : k = msg[c].fid}) = 1)

\* a walk to a fresh fid has succeeded: two keys
C8_Witness ==
    \E c \in Conns :
        /\ Served(c)
        /\ msg[c].kind = "Twalk"
        /\ reply[c].res.ok
        /\ msg[c].newfid # msg[c].fid
        /\ Cardinality(Keys(c)) = 2

\* C9: in-order single-threaded dispatch. At most one request read on a
\* connection is unanswered; while the dispatcher serves it, it is the
\* request just read; and when the dispatcher reads the next request every
\* earlier one has been answered with its tag.
C9_InOrder ==
    \A c \in Conns :
        /\ Len(pending[c]) <= 1
        /\ (pc[c] \in {"read", "replied"} => pending[c] = <<>>)
        /\ (pc[c] \in {"lock", "dispatch", "callback", "respond"}
            => pending[c] = <<msg[c].tag>>)

\* the reply to the request read has been written and nothing is pending
\* as the loop goes back to read_msg
C9_Witness ==
    \E c \in Conns :
        /\ pc[c] = "replied"
        /\ Len(sent[c]) = 1
        /\ sent[c][1].tag = msg[c].tag
        /\ pending[c] = <<>>

\* C10: backend mutual exclusion under srv_spawn. No two workers are inside
\* a callback at once, and a worker inside dispatch_once holds the mutex.
C10_Mutex ==
    mode = "spawn"
    => /\ \A c \in Conns :
            pc[c] \in {"dispatch", "callback"} => mutex = c
       /\ \A c1, c2 \in Conns :
            (pc[c1] = "callback" /\ pc[c2] = "callback") => c1 = c2

\* one worker is inside a callback while another waits for the mutex
C10_Witness ==
    \E c1, c2 \in Conns :
        /\ c1 # c2
        /\ pc[c1] = "callback"
        /\ pc[c2] = "lock"
        /\ mutex = c1

\* C11: panic isolation under srv_spawn. A panic inside a callback on one
\* connection ends only that connection's worker: no other worker ends
\* with a panic of its own when it asks for the backend.
C11_PanicIsolation ==
    \A a, b \in Conns :
        (a # b /\ exit[a] = "panic") => exit[b] # "PoisonError"

\* C12: per-connection fid tables. An accepted connection starts with an
\* empty table, and a step of one connection's worker leaves the table of
\* every other connection as it was.
C12_OwnTable ==
    [][\A a \in Conns :
          /\ (pc[a] = "unaccepted" /\ pc'[a] # "unaccepted")
             => fsfids'[a] = EmptyTable
          /\ pc'[a] # pc[a]
             => \A b \in Conns \ {a} : fsfids'[b] = fsfids[b]]_vars

\* fid 0 is live on one connection while another connection, accepted
\* later, has ended on a request that names fid 0
C12_Witness ==
    \E a, b \in Conns :
        /\ a # b
        /\ 0 \in Keys(a)
        /\ 0 \notin Keys(b)
        /\ exit[b] = "NotFound"

\* C13: version resets the session. After a Tversion has been served no fid
\* that was a key before it is a key of the table.
C13_VersionResets ==
    [][\A c \in Conns :
          (pc[c] = "callback" /\ pc'[c] = "respond" /\ msg[c].kind = "Tversion")
          => KeysBefore(c) \cap Keys(c)' = {}]_vars

C17_DefaultCallbacks ==
    \A c \in Conns :
        (pc[c] \in {"respond", "replied"} /\ msg[c].kind # "Tversion")
        => /\ reply[c].tag = msg[c].tag
           /\ reply[c].fcall = [kind |-> "Rlerror", ecode |-> 95]
           /\ pc[c] = "replied"
              => sent[c] = <<[typ |-> "Rlerror", tag |-> msg[c].tag,
                              body |-> reply[c].fcall]>>

\* the default rflush and a default callback that takes a fid have answered
C17_Witness ==
    \E c \in Conns :
        /\ pc[c] = "replied"
        /\ msg[c].kind \in {"Tflush", "Tread"}
        /\ sent[c][1].body.ecode = EOPNOTSUPP

\* C18: msize bound. Once an Rversion has been written on a connection, no
\* frame written on it is longer than the msize that Rversion carried.
C18_MsizeBound ==
    [][\A c \in Conns :
          (sent'[c] # sent[c] /\ sent'[c] # <<>> /\ msize[c] # 0)
          => FrameLen(Last(sent'[c])) <= msize[c]]_vars

\* C14: codec round-trip. Reading the frame that write_msg produced for a
\* well-formed Msg (typ agreeing with the body variant) yields Ok of a Msg
\* equal to the one that was encoded, for every message kind.
C14_RoundTrip ==
    (codec.pc = "decoded" /\ codec.wire = Msg_encode(codec.msg).bytes)
        => codec.res = MsgOk(codec.msg)

\* C15: frame size consistency. The 4-byte little-endian prefix of every
\* frame write_msg writes is the total number of bytes of the frame, the
\* prefix included, and is the value the encoder returns.
C15_FrameSize ==
    codec.pc \in {"wire", "decoded"}
        => /\ FromLE(SubSeq(codec.wire, 1, 4)) = Len(codec.wire)
           /\ codec.ret = Len(codec.wire)

\* an Rgetattr, the longest fixed-size frame, has been written
C15_Witness ==
    /\ codec.pc = "wire"
    /\ codec.msg.typ = "Rgetattr"
    /\ codec.ret = 160
    /\ SubSeq(codec.wire, 1, 4) = <<160, 0, 0, 0>>

\* the type bytes of the message kinds the decoder accepts
GoodTypes == {MsgTypeCode[k] : k \in Kinds}

\* C19: unknown message type. Reading a frame whose type byte is no
\* enumerated message kind, or is Tlerror (6), fails with the protocol
\* error "Invalid message type"; the server writes nothing for it, and the
\* only step the dispatch loop takes is to stop serving the connection.
C19_UnknownType ==
    (codec.pc = "decoded" /\ codec.wire[5] \notin GoodTypes)
        => /\ codec.res = MsgErr("Invalid message type")
           /\ sent[1] = <<>>
           /\ pc[1] \in {"read", "finished"}
           /\ pc[1] = "finished" => exit[1] = "read_msg"

\* a frame of type Tlerror has ended the dispatch loop
C19_Witness ==
    /\ codec.pc = "decoded"
    /\ codec.wire[5] = 6
    /\ codec.res = MsgErr("Invalid message type")
    /\ pc[1] = "finished"
    /\ sent[1] = <<>>

C21_RgetattrTrailer ==
    (/\ codec.pc \in {"wire", "decoded"}
     /\ codec.msg.typ = "Rgetattr"
     /\ codec.wire[5] = MsgTypeCode["Rgetattr"])
    => LET b == codec.msg.body
           buf == SubSeq(codec.wire, 5, Len(codec.wire))
           head == Encode("u64", b.valid) \o Encode("Qid", b.qid)
                       \o Encode("Stat", b.stat)
           stat == DecodeAll(DecodeArm("Rgetattr"), buf, 4, 1, <<>>)
           all == DecodeAll(DecodeArm("Rgetattr")
                               \o DecodeDiscard("Rgetattr"), buf, 4, 1, <<>>)
       IN  /\ SubSeq(buf, 4, Len(buf)) = head \o [i \in 1..32 |-> 0]
           /\ codec.pc = "decoded"
                => /\ codec.res = MsgOk(codec.msg)
                   /\ stat.ok /\ all.ok
                   /\ all.pos = stat.pos + 32
                   /\ all.pos = Len(buf) + 1

\* an Rgetattr with a non-zero mask and stat has been read back
C21_Witness ==
    /\ codec.pc = "decoded"
    /\ codec.msg.typ = "Rgetattr"
    /\ codec.msg.body.valid # 0
    /\ codec.res = MsgOk(codec.msg)
    /\ SubSeq(codec.wire, Len(codec.wire) - 31, Len(codec.wire))
          = [i \in 1..32 |-> 0]

TableBefore(c) == InsertAll(fsfids[c], fids[c])

\* the requests that reference two existing fids
TwoFidKinds == {"Trename", "Tlink", "Trenameat"}

\* C23: error leaves fids unmodified. When the callback returns Err, every
\* Fid taken for the request is back in the table with the aux it had
\* before, and the table after the request equals the table before it.
C23_ErrUnmodified ==
    [][\A c \in Conns :
          (pc[c] = "callback" /\ pc'[c] = "respond" /\ ~reply'[c].res.ok)
          => /\ \A i \in DOMAIN fids[c] :
                   /\ fids[c][i].fid \in Keys(c)'
                   /\ fsfids'[c][fids[c][i].fid] = fids[c][i]
             /\ fsfids'[c] = TableBefore(c)]_vars

\* C24: take_many is all-or-nothing. For a Trename, Tlink or Trenameat
\* whose first fid is live and whose second is not, the first fid is back
\* in the table after the failed lookup and the table equals the table
\* before the request.
C24_AllOrNothing ==
    [][\A c \in Conns :
          (/\ pc[c] = "dispatch" /\ pc'[c] # "dispatch"
           /\ msg[c].kind \in TwoFidKinds
           /\ Fcall_fid(msg[c])[1] \in Keys(c)
           /\ Fcall_fid(msg[c])[2] \notin Keys(c))
          => /\ Fcall_fid(msg[c])[1] \in Keys(c)'
             /\ fsfids'[c] = fsfids[c]]_vars

\* the aux values of the Fids v as they are: a callback that does not touch
\* its arguments leaves these
Untouched(v) == [i \in DOMAIN v |-> v[i].aux]

\* C25: walk clone. For Twalk{fid, newfid, wnames=[]} with newfid # fid,
\* when rwalk does nothing but return Ok(Rwalk{wqids=[]}), newfid is a key
\* afterwards with the aux of fid, and fid keeps its aux.
C25_WalkClone ==
    [][\A c \in Conns :
          (/\ msg[c].kind = "Twalk"
           /\ msg[c].nwname = 0
           /\ msg[c].newfid # msg[c].fid
           /\ DispatchEndWith(c, [ok |-> TRUE,
                                  fcall |-> [kind |-> "Rwalk", nwqid |-> 0]],
                              Untouched(fids[c]), Untouched(newfids[c])))
          => /\ {msg[c].fid, msg[c].newfid} \subseteq Keys(c)'
             /\ fsfids'[c][msg[c].newfid].aux = fids[c][1].aux
             /\ fsfids'[c][msg[c].fid].aux = fids[c][1].aux]_vars

\* the new fid of the request is a key of the table, the walked fid of a
\* Twalk aside
ReusesLiveFid(c) ==
    /\ msg[c].kind \in IntroKinds
    /\ Fcall_newfid(msg[c])[1] \in KeysBefore(c)
    /\ msg[c].kind = "Twalk" => msg[c].newfid # msg[c].fid

\* C26: re-use of a live fid is a client error. A request whose new fid is
\* a key of the table already is answered with an error reply, and the
\* entry under that key keeps its aux.
C26_ReuseLiveFid ==
    [][\A c \in Conns :
          (pc[c] = "callback" /\ pc'[c] = "respond" /\ ReusesLiveFid(c))
          => /\ reply'[c].fcall.kind = "Rlerror"
             /\ Fcall_newfid(msg[c])[1] \in Keys(c)'
             /\ fsfids'[c][Fcall_newfid(msg[c])[1]].aux =
                   TableBefore(c)[Fcall_newfid(msg[c])[1]].aux]_vars

\* C27: two-fid requests with one fid. A Trename, Tlink or Trenameat that
\* names the same live fid in both positions reaches the callback with
\* both Fids resolved and is not refused as fid-not-found; the fid is a
\* key of the table once the request is served.
C27_SameFidTwice ==
    [][\A c \in Conns :
          (/\ pc[c] = "dispatch" /\ pc'[c] # "dispatch"
           /\ msg[c].kind \in TwoFidKinds
           /\ Fcall_fid(msg[c])[1] = Fcall_fid(msg[c])[2]
           /\ Fcall_fid(msg[c])[1] \in Keys(c))
          => /\ pc'[c] = "callback"
             /\ Len(fids'[c]) = 2
             /\ exit'[c] # "NotFound"
             /\ Fcall_fid(msg[c])[1] \in KeysBefore(c)']_vars

\* C28: failed walk-in-place keeps the fid. For Twalk{fid=F, newfid=F} with
\* F live, when rwalk returns Err without touching its arguments, F is a
\* key afterwards with the aux it had before the request.
C28_FailedWalkInPlace ==
    [][\A c \in Conns : \A e \in BackendErrs :
          (/\ msg[c].kind = "Twalk"
           /\ msg[c].newfid = msg[c].fid
           /\ DispatchEndWith(c, [ok |-> FALSE, err |-> e],
                              Untouched(fids[c]), Untouched(newfids[c])))
          => /\ msg[c].fid \in Keys(c)'
             /\ fsfids'[c][msg[c].fid] = fids[c][1]]_vars

\* every entry is stored under its own raw fid
KeyConsistent ==
    \A c \in Conns : \A k \in Keys(c) : fsfids[c][k].fid = k

\* the keys dispatch_once leaves for the request whose callback returned ok
KeysAfter(c, ok) ==
    (KeysBefore(c) \cup Range(Fcall_newfid(msg[c])))
        \ (IF msg[c].kind = "Tclunk" /\ ok THEN {msg[c].fid} ELSE {})

Named(body) == Range(Fcall_fid(body)) \cup Range(Fcall_newfid(body))

\* C30: frame of a request. No step of serving a request (Tversion aside)
\* changes an entry of the table whose key the request names neither as an
\* existing fid nor as a new fid: such a key stays a key or stays none, with
\* the same Fid; and serving a Tflush leaves the whole table as it is.
C30_Frame ==
    [][\A c \in Conns :
          /\ msg[c].kind # "Tversion"
              => \A k \in RawFids \ Named(msg[c]) :
                    /\ k \in Keys(c)' <=> k \in Keys(c)
                    /\ k \in Keys(c) => fsfids'[c][k] = fsfids[c][k]
          /\ msg[c].kind = "Tflush" => fsfids'[c] = fsfids[c]]_vars

\* a clunk has been served while another fid, which holds an aux, is live
C30_Witness ==
    \E c \in Conns :
        /\ Served(c)
        /\ msg[c].kind = "Tclunk"
        /\ reply[c].res.ok
        /\ \E k \in Keys(c) : k # msg[c].fid /\ fsfids[c][k].aux # None

\* C31: bad size prefix. A frame whose size prefix is below the 7 bytes of
\* a header is never decoded to a message; the reader never takes a
\* wrapped size - 4 as the length of the body, and it takes no more bytes
\* from the stream than the prefix and the body a prefix of 4 or more
\* advertises.
C31_BadSizePrefix ==
    LET advertised == FromLE(SubSeq(codec.input, 1, 4))
        consumed == Len(codec.input) - Len(codec.stream)
    IN  (codec.pc # "size" /\ advertised < 7)
        => /\ codec.hi = 0
           /\ consumed <= (IF advertised < 4 THEN 4 ELSE advertised)
           /\ codec.pc = "body" => codec.want = advertised - 4
           /\ codec.pc = "parsed" => ~codec.res.ok

\* C32: readdir block prefix. The 4 bytes the encoder writes in front of
\* the entries of an Rreaddir are the number of entries, and an Rreaddir
\* with any number of entries decodes back to the same entries.
C32_ReaddirPrefix ==
    (/\ codec.pc \in {"wire", "decoded"}
     /\ codec.msg.typ = "Rreaddir"
     /\ codec.wire = Msg_encode(codec.msg).bytes)
    => /\ FromLE(SubSeq(codec.wire, 8, 11)) = Len(codec.msg.body.data)
       /\ codec.pc = "decoded" => codec.res = MsgOk(codec.msg)

\* C33: string and vector length prefixes. In every frame of a Tversion or
\* Rversion the 2-byte prefix of the string is the number of bytes that
\* follow it, which are the string to the end of the frame; in every frame
\* of a Twalk the 2-byte count is the number of names; and a string of
\* more than 65535 bytes, or one that is no UTF-8, is neither written nor
\* decoded to a message.
C33_LengthPrefixes ==
    LET in == codec.in
    IN  /\ (codec.pc \in {"wire", "decoded"} /\ in.typ = "Twalk")
            => codec.seen.prefix = in.n
        /\ (codec.pc \in {"wire", "decoded"} /\ in.typ # "Twalk")
            => /\ codec.seen.prefix = codec.seen.rest
               /\ codec.seen.same
               /\ in.n <= 65535
        /\ (codec.pc = "decoded" /\ (in.n > 65535 \/ in.bad > 0))
            => ~codec.res.ok

\* the worker is blocked on its transport, reading the next request or
\* writing a reply, or it does not run
OnTransport(c) == pc[c] \in {"unaccepted", "read", "respond", "finished"}

\* C34: no lock across transport I/O. A worker holds the backend mutex only
\* between taking it for a request and the return of dispatch_once, never
\* while it reads a request or writes a reply; hence, when the other
\* connection stays blocked on its transport, a request read on connection
\* 1 is dispatched and its reply is written (or the connection ends).
C34_NoLockAcrossIO ==
    /\ [](\A c \in Workers :
            /\ mutex = c => pc[c] \in {"dispatch", "callback"}
            /\ OnTransport(c) => mutex # c)
    /\ (<>[]OnTransport(2))
        => (pc[1] = "lock" ~> pc[1] \in {"replied", "finished"})

\* worker 1 is inside a callback while worker 2 is blocked writing a reply
C34_Witness ==
    /\ pc[1] = "callback"
    /\ mutex = 1
    /\ pc[2] = "respond"
    /\ pending[2] # <<>>

\* C35: process per connection. SIGCHLD is ignored before the first fork;
\* the parent only moves between accept and fork and never runs a dispatch
\* loop; every connection served is served by the child forked for it; a
\* child leaves its dispatch loop only by exiting.
C35_ProcessPerConnection ==
    /\ [](/\ listener.pc \in {"sigaction", "accept", "fork", "returned"}
          /\ listener.sigchld = "default"
               => /\ listener.pc \in {"sigaction", "returned"}
                  /\ \A c \in Conns : listener.process[c] = "none"
          /\ \A c \in Conns :
                /\ pc[c] # "unaccepted" => listener.process[c] \in {"child", "exited"}
                /\ listener.process[c] = "exited" => pc[c] = "finished"
                /\ listener.process[c] \in {"none", "child", "exited"})
    /\ [][\A c \in Conns :
            /\ (listener.stream = c /\ listener'.process[c] = "child")
                 => listener'.pc = "accept" /\ pc'[c] = "read"
            /\ (listener.process[c] = "child" /\ listener'.process[c] # "child")
                 => pc[c] = "finished" /\ listener'.process[c] = "exited"
            /\ (pc[c] = "finished" /\ listener.process[c] = "child")
                 => pc'[c] = "finished" /\ listener'.process[c] # "none"
            /\ listener.process[c] = "exited" => listener'.process[c] = "exited"]_vars

\* the parent is back in accept with one child gone and another serving
C35_Witness ==
    /\ listener.pc = "accept"
    /\ listener.sigchld = "ignore"
    /\ listener.process[1] = "exited"
    /\ listener.process[2] = "child"
    /\ pc[2] = "callback"

(***************************************************************************)
(* unpfs: Unpfs::rreaddir over a directory whose entries have the names    *)
(* `names`, in the order fs::read_dir yields them.                         *)
(***************************************************************************)
\* for (i, entry) in entries.enumerate().skip(offset): i counts from 0
RECURSIVE ReaddirLoop(_, _, _, _)
ReaddirLoop(dirents, names, i, count) ==
    IF i >= Len(names) THEN dirents
    ELSE LET dirent == [offset |-> 2 + i, name |-> names[i + 1]]
         IN  IF DirEntryData_size(dirents) + DirEntry_size(dirent) > count
             THEN dirents
             ELSE ReaddirLoop(Append(dirents, dirent), names, i + 1, count)

rreaddir(names, off, count) ==
    LET dirents == IF off = 0
                   THEN <<[offset |-> 0, name |-> <<46>>],
                          [offset |-> 1, name |-> <<46, 46>>]>>
                   ELSE <<>>
        offset == IF off = 0 THEN off ELSE off - 1
    IN  ReaddirLoop(dirents, names, offset, count)

\* a client sends Treaddir { offset: off, count } for a directory
InitReaddir ==
    /\ mode = "fork"
    /\ filesystem = "custom"
    /\ StartServer
    /\ \E names \in UNION {[1..n -> {<<97>>, <<98, 98>>}] : n \in 0..3} :
       \E off \in 0..3 :
       \E count \in {0, 25, 50, 51, 76, 77, 78, 103, 200} :
         codec = [pc |-> "rreaddir", names |-> names, off |-> off,
                  count |-> count, data |-> <<>>]

\* Ok(Fcall::Rreaddir { data: dirents })
Treaddir ==
    /\ codec.pc = "rreaddir"
    /\ codec' = [codec EXCEPT
                   !.pc = "returned",
                   !.data = rreaddir(codec.names, codec.off, codec.count)]
    /\ UNCHANGED srvvars

SpecReaddir == InitReaddir /\ [][Treaddir]_vars

\* C36: readdir budget in unpfs. The encoded sizes of the entries of an
\* Rreaddir sum to at most the count of the request, also at offset 0,
\* where "." and ".." are emitted.
C36_ReaddirBudget ==
    codec.pc = "returned" => DirEntryData_size(codec.data) <= codec.count

(***************************************************************************)
(* srv_mt: MtServerInstance::dispatch on one connection.  A reader thread  *)
(* queues the requests it reads, the dispatcher threads take them from the *)
(* queue, run mt_dispatch_once on the shared fid table and write the       *)
(* reply on their own clone of the stream.  The request with tag n is the  *)
(* n-th one read; the queue holds the requests after the first mt.head.    *)
(***************************************************************************)
Dispatchers == 1..NumDispatchers

\* the requests of the srv_mt model, both on fid 0
MtKinds == {"Tattach", "Tread"}

\* Ok(msg) => tx.send(msg)
MtRead(k) ==
    /\ mt.reader = "reading"
    /\ Len(mt.arrived) < MaxReqs
    /\ mt' = [mt EXCEPT !.arrived = Append(@, k)]
    /\ UNCHANGED <<srvvars_mt, codec>>

\* Err(e) => break: the reader thread ends and tx is dropped
MtReadFail ==
    /\ mt.reader = "reading"
    /\ mt' = [mt EXCEPT !.reader = "done"]
    /\ UNCHANGED <<srvvars_mt, codec>>

\* rx.recv_sync() gives Ok(msg), the oldest queued request
Recv(t) ==
    /\ mt.th[t].pc = "recv"
    /\ mt.head < Len(mt.arrived)
    /\ mt' = [mt EXCEPT !.head = @ + 1,
                        !.th[t] = [pc |-> "take", tag |-> mt.head + 1,
                                   left |-> 0]]
    /\ UNCHANGED <<srvvars_mt, codec>>

\* rx.recv_sync() gives Err: the queue is empty and the sender is gone
RecvErr(t) ==
    /\ mt.th[t].pc = "recv"
    /\ mt.head = Len(mt.arrived)
    /\ mt.reader = "done"
    /\ mt' = [mt EXCEPT !.th[t].pc = "exited"]
    /\ UNCHANGED <<srvvars_mt, codec>>

\* fsfids.read().unwrap().get(&f).unwrap().clone() for the fids of the
\* request: a missing entry makes the thread panic
Take(t) ==
    /\ mt.th[t].pc = "take"
    /\ mt' = [mt EXCEPT !.th[t].pc =
                 IF mt.arrived[mt.th[t].tag] = "Tread" /\ 0 \notin mt.fsfids
                 THEN "panicked" ELSE "callback"]
    /\ UNCHANGED <<srvvars_mt, codec>>

\* the callback returns Ok or Err; the new fids are inserted either way
Finish(t) ==
    /\ mt.th[t].pc = "callback"
    /\ \E r \in BOOLEAN :
         mt' = [mt EXCEPT
                  !.ok = IF r THEN @ \cup {mt.th[t].tag} ELSE @,
                  !.fsfids = IF mt.arrived[mt.th[t].tag] = "Tattach"
                             THEN @ \cup {0} ELSE @,
                  !.th[t] = [@ EXCEPT !.pc = "respond", !.left = 2]]
    /\ UNCHANGED <<srvvars_mt, codec>>

\* utils::respond on the thread's clone of the stream: write_all hands the
\* frame to write(), which takes all of it or a part (the frame is two
\* parts here); on Err the error is logged and the loop goes on
Write(t) ==
    /\ mt.th[t].pc = "respond"
    /\ \/ \E n \in 1..mt.th[t].left :
            mt' = [mt EXCEPT
                     !.wire = @ \o [i \in 1..n |-> mt.th[t].tag],
                     !.th[t] = [pc |-> IF n = mt.th[t].left
                                       THEN "recv" ELSE "respond",
                                tag |-> IF n = mt.th[t].left
                                        THEN 0 ELSE mt.th[t].tag,
                                left |-> mt.th[t].left - n]]
       \/ mt' = [mt EXCEPT !.th[t] = [pc |-> "recv", tag |-> 0, left |-> 0]]
    /\ UNCHANGED <<srvvars_mt, codec>>

\* for thread in threads { let _ = thread.join(); } Ok(())
Join ==
    /\ mt.dispatch = "joining"
    /\ mt.reader = "done"
    /\ \A t \in Dispatchers : mt.th[t].pc \in {"exited", "panicked"}
    /\ mt' = [mt EXCEPT !.dispatch = "returned"]
    /\ UNCHANGED <<srvvars_mt, codec>>

InitMt ==
    /\ mode = "spawn"
    /\ filesystem = "custom"
    /\ Start

NextMt ==
    \/ \E k \in MtKinds : MtRead(k)
    \/ MtReadFail
    \/ Join
    \/ \E t \in Dispatchers :
          \/ Recv(t)
          \/ RecvErr(t)
          \/ Take(t)
          \/ Finish(t)
          \/ Write(t)

SpecMt == InitMt /\ [][NextMt]_vars

\* every thread that can take a step does (a callback returns, a write to
\* the stream ends or fails); the peer is not made to send or to hang up
SpecMtLive ==
    /\ SpecMt
    /\ WF_vars(Join)
    /\ \A t \in Dispatchers :
          /\ WF_vars(Recv(t))
          /\ WF_vars(RecvErr(t))
          /\ WF_vars(Take(t))
          /\ WF_vars(Finish(t))
          /\ WF_vars(Write(t))

\* C37: srv_mt ordering. At most one request is between recv_sync and the
\* end of its reply, and the reply frames are put on the wire in the order
\* the requests were read.
C37_ArrivalOrder ==
    /\ \A t, u \in Dispatchers :
          (mt.th[t].pc \in {"take", "callback", "respond"}
           /\ mt.th[u].pc \in {"take", "callback", "respond"}) => t = u
    /\ \A i, j \in DOMAIN mt.wire : i < j => mt.wire[i] <= mt.wire[j]

\* C38: srv_mt fid visibility. No dispatcher thread fails on a missing fid
\* for a request read after a Tattach of that fid whose callback succeeds.
C38_FidVisible ==
    \A t \in Dispatchers :
        mt.th[t].pc = "panicked"
            => ~\E n \in mt.ok : /\ n < mt.th[t].tag
                                  /\ mt.arrived[n] = "Tattach"

\* C39: srv_mt transport exclusivity. The two parts of a reply frame are
\* next to each other on the wire: no part of another reply lies between.
C39_FramesNotInterleaved ==
    \A i, j \in DOMAIN mt.wire :
        (i < j /\ mt.wire[i] = mt.wire[j])
            => \A k \in i..j : mt.wire[k] = mt.wire[i]

\* C40: srv_mt shutdown. Once the reader thread has ended, dispatch
\* returns in the end, and when it returns no request is left in the queue.
C40_Shutdown ==
    /\ [](mt.dispatch = "returned" => mt.head = Len(mt.arrived))
    /\ (mt.reader = "done" ~> mt.dispatch = "returned")

====
